---------------------------- MODULE Spec2Model ----------------------------
(***************************************************************************)
(* Request lifecycle engine of the AI companion plugin:                    *)
(*   - RequestQueue (src/src/services/request-queue.ts): bounded           *)
(*     concurrency, priority ordered waiting list, cancel / clear /        *)
(*     setMaxConcurrent;                                                   *)
(*   - AIClient (src/src/services/ai-client.ts): retry loop, timeout and   *)
(*     cancellation of one attempt, error classification, SSE streaming.   *)
(* The queue is modelled over several requests with the client call of     *)
(* each request reduced to "running, then settles either way"; the client  *)
(* is modelled in detail for one request.                                  *)
(***************************************************************************)
EXTENDS Integers, Sequences, FiniteSets, TLC

\* ------------------------------------------------------------------ bounds
NumRequests == 3        \* request identities in use at the same time
MaxK == 2               \* largest maxConcurrent value tried
MaxCount == 2           \* scaled-down limit of the completed/failed counters

Ids == 1..NumRequests
Priorities == {1, 3, 9}
Limits == 1..MaxK

\* ------------------------------------------------------------ error values
\* AIError (src/unnamed/part_002:107-135): type, user-facing message,
\* retryable.  `details` and `originalError` only copy the raw error text and
\* take part in no decision; they are left out of the value.
AIErrorType == {"network", "api", "auth", "timeout", "rate_limit",
                "invalid_request", "unknown"}

MSG ==
    [ network |-> "cannot connect to the AI service",   \* '无法连接到 AI 服务，请检查网络连接'
      timeout |-> "AI service timed out",   \* 'AI 服务响应超时，请稍后重试'
      auth |-> "API key invalid or expired",   \* 'API 密钥无效或已过期，请检查设置'
      rate_limit |-> "API rate limit exceeded",   \* 'API 调用频率超限，请稍后重试'
      cancelled |-> "request cancelled",   \* '请求已取消'
      api |-> "AI service error",   \* 'AI 服务错误'
      unknown |-> "unknown error",   \* '发生未知错误，请查看控制台了解详情'
      cleared |-> "queue cleared" ]   \* '队列已清空'

AIError(t, m, r) == [type |-> t, message |-> m, retryable |-> r]

NoError == [type |-> "none", message |-> "none", retryable |-> FALSE]

\* request-queue.ts:142-147, the error cancel(id) rejects a waiting request with
QueueCancelError == AIError("unknown", MSG.cancelled, FALSE)

\* request-queue.ts:184-189, the error clear() rejects every waiting request with
QueueClearError == AIError("unknown", MSG.cleared, FALSE)

\* ------------------------------------------------------------------ strings
\* Error messages are sequences of characters, so that toLowerCase and
\* String.prototype.includes are computed the way the classifier computes
\* them.

\* the texts of the errors the client meets (ai-client.ts:93-212) and of
\* the error bodies of the responses
STR ==
      \* ai-client.ts:181, the prefix of `API error: ${response.status} - ${errorText}`
    [ api_error |-> <<"A", "P", "I", " ", "e", "r", "r", "o", "r", ":", " ">>,
      dash |-> <<" ", "-", " ">>,
      \* ai-client.ts:93 and 210
      request_cancelled |-> <<"R", "e", "q", "u", "e", "s", "t", " ", "c", "a", "n", "c", "e", "l", "l", "e", "d">>,
      \* ai-client.ts:212
      request_timeout |-> <<"R", "e", "q", "u", "e", "s", "t", " ", "t", "i", "m", "e", "o", "u", "t">>,
      \* ai-client.ts:107
      request_failed |-> <<"R", "e", "q", "u", "e", "s", "t", " ", "f", "a", "i", "l", "e", "d">>,
      \* the TypeError fetch rejects with when the connection fails
      failed_to_fetch |-> <<"F", "a", "i", "l", "e", "d", " ", "t", "o", " ", "f", "e", "t", "c", "h">>,
      \* the TypeError a body read rejects with when the connection breaks
      network_error |-> <<"n", "e", "t", "w", "o", "r", "k", " ", "e", "r", "r", "o", "r">>,
      \* the SyntaxError response.json() rejects with on a body that is not JSON
      unexpected_token |-> <<"U", "n", "e", "x", "p", "e", "c", "t", "e", "d", " ", "t", "o", "k", "e", "n">>,
      \* error body of the 401 test, command-registry.ts:367
      body_unauthorized |-> <<"U", "n", "a", "u", "t", "h", "o", "r", "i", "z", "e", "d">>,
      \* an error body that mentions a rate limit
      body_rate_limit |-> <<"r", "a", "t", "e", " ", "l", "i", "m", "i", "t">>,
      \* error bodies that mention a cancellation, a timeout
      body_cancelled |-> <<"c", "a", "n", "c", "e", "l", "l", "e", "d">>,
      body_timeout |-> <<"t", "i", "m", "e", "o", "u", "t">> ]

\* String.prototype.toLowerCase on the letters the messages use
LowerChar(c) ==
    CASE c = "A" -> "a" [] c = "P" -> "p" [] c = "I" -> "i"
      [] c = "R" -> "r" [] c = "F" -> "f" [] c = "U" -> "u"
      [] c = "T" -> "t" [] c = "S" -> "s" [] c = "E" -> "e"
      [] OTHER -> c

toLowerCase(s) == [k \in 1..Len(s) |-> LowerChar(s[k])]

\* String.prototype.includes
includes(s, pat) ==
    \E k \in 0..(Len(s) - Len(pat)) : SubSeq(s, k + 1, k + Len(pat)) = pat

DigitChar(d) ==
    CASE d = 0 -> "0" [] d = 1 -> "1" [] d = 2 -> "2" [] d = 3 -> "3"
      [] d = 4 -> "4" [] d = 5 -> "5" [] d = 6 -> "6" [] d = 7 -> "7"
      [] d = 8 -> "8" [] d = 9 -> "9"

\* the decimal text of a number, as a template literal prints it
RECURSIVE NumberToString(_)
NumberToString(n) ==
    IF n < 10 THEN <<DigitChar(n)>>
    ELSE NumberToString(n \div 10) \o <<DigitChar(n % 10)>>

\* `API error: ${response.status} - ${errorText}` (ai-client.ts:181)
ApiErrorMessage(status, errorText) ==
    STR.api_error \o NumberToString(status) \o STR.dash \o errorText

\* the substrings the classifier looks for (ai-client.ts:374-486)
PAT ==
    [ network |-> <<"n", "e", "t", "w", "o", "r", "k">>,
      fetch |-> <<"f", "e", "t", "c", "h">>,
      timeout |-> <<"t", "i", "m", "e", "o", "u", "t">>,
      s500 |-> <<"5", "0", "0">>,
      s502 |-> <<"5", "0", "2">>,
      s503 |-> <<"5", "0", "3">>,
      s504 |-> <<"5", "0", "4">>,
      s429 |-> <<"4", "2", "9">>,
      rate_limit |-> <<"r", "a", "t", "e", " ", "l", "i", "m", "i", "t">>,
      s401 |-> <<"4", "0", "1">>,
      s403 |-> <<"4", "0", "3">>,
      unauthorized |-> <<"u", "n", "a", "u", "t", "h", "o", "r", "i", "z", "e", "d">>,
      forbidden |-> <<"f", "o", "r", "b", "i", "d", "d", "e", "n">>,
      cancel |-> <<"c", "a", "n", "c", "e", "l">>,
      api_error |-> <<"a", "p", "i", " ", "e", "r", "r", "o", "r">>,
      s5 |-> <<"5">> ]

\* isRetryableError (ai-client.ts:374-400), on the raw error message
isRetryableError(errorMessage) ==
    LET message == toLowerCase(errorMessage)
    IN  \/ includes(message, PAT.network) \/ includes(message, PAT.fetch)
        \/ includes(message, PAT.timeout)
        \/ includes(message, PAT.s500) \/ includes(message, PAT.s502)
        \/ includes(message, PAT.s503) \/ includes(message, PAT.s504)
        \/ includes(message, PAT.s429) \/ includes(message, PAT.rate_limit)

\* convertToAIError (ai-client.ts:408-486), on the raw error message
convertToAIError(errorMessage) ==
    LET message == toLowerCase(errorMessage)
    IN  IF includes(message, PAT.network) \/ includes(message, PAT.fetch)
        THEN AIError("network", MSG.network, TRUE)
        ELSE IF includes(message, PAT.timeout)
        THEN AIError("timeout", MSG.timeout, TRUE)
        ELSE IF \/ includes(message, PAT.s401) \/ includes(message, PAT.s403)
                \/ includes(message, PAT.unauthorized)
                \/ includes(message, PAT.forbidden)
        THEN AIError("auth", MSG.auth, FALSE)
        ELSE IF includes(message, PAT.s429) \/ includes(message, PAT.rate_limit)
        THEN AIError("rate_limit", MSG.rate_limit, TRUE)
        ELSE IF includes(message, PAT.cancel)
        THEN AIError("unknown", MSG.cancelled, FALSE)
        ELSE IF includes(message, PAT.api_error)
        THEN AIError("api", MSG.api, includes(message, PAT.s5))
        ELSE AIError("unknown", MSG.unknown, FALSE)

\* ============================================================= CancelToken
\* The token returned by createCancelToken (ai-client.ts:16-38), with the
\* callbacks its callers register told apart.

MaxCallbacks == 3       \* onCancel calls made on one token

\* what a registered callback does when it is invoked: return, throw, or
\* call cancel() on the token again
CallbackKinds == {"plain", "throws", "cancels"}

Callback(id, kind) == [id |-> id, kind |-> kind]

VARIABLES
    token,              \* createCancelToken: cancelled and callbacks
    tokenLog            \* the callbacks invoked so far, in order, and the
                        \* last call made on the token with what it invoked

tvars == <<token, tokenLog>>

\* ============================================================== classifier
\* The two classifiers of the client, isRetryableError and convertToAIError
\* (ai-client.ts:374-486), applied to one error.
VARIABLES
    errorInput,         \* the error to classify: the status and body of a
                        \* response that is not ok, or (status 0) the message
                        \* of an exception
    classified,         \* convertToAIError(error), NoError before the call
    retryDecision       \* isRetryableError(error), "none" before the call

evars == <<errorInput, classified, retryDecision>>

\* ======================================================== connection test
\* testConnection (ai-client.ts:512-540).  A call keeps its controller and
\* its timer in local variables, so calls do not share anything; NumProbes
\* of them run side by side.
NumProbes == 2

Probes == 1..NumProbes

VARIABLES
    probe               \* per call: where it stands, its timer, its
                        \* controller, the status received, what it returned
                        \* and whether it threw

pvars == <<probe>>

\* ============================================================== SSE reader
\* handleStreamResponse (ai-client.ts:268-344) on the text of a streamed
\* body, character by character, so that a read can end anywhere in it.
MaxStreamLines == 2     \* lines of a streamed body

VARIABLES
    reader              \* the body being read, how far it has been read, the
                        \* content accumulated, the onStream calls made, and
                        \* whether every read so far ended behind a newline

svars == <<reader>>

\* ================================================================= editor
\* EditorUIController.submitPrompt (editor-ui-controller.ts:80-235) and the
\* ResponseRenderer it drives (ui/response-renderer).
NumPrompts == 2         \* submitPrompt calls
MaxFragments == 1       \* fragments streamed to one prompt

PromptIds == 1..NumPrompts

VARIABLES
    streamResponse,     \* plugin.settings.streamResponse
    streamedContentMap, \* ResponseRenderer.streamedContentMap (with it
                        \* lastLineCountMap, which has the same keys)
    cursorHideStyleEl,  \* ResponseRenderer.cursorHideStyleEl is not null
    prompt,             \* per submitPrompt call: where it stands, the
                        \* stream flag of its request and how it ended
    unloaded            \* EditorUIController.cleanup has run

uvars == <<streamResponse, streamedContentMap, cursorHideStyleEl, prompt,
           unloaded>>

\* ================================================================ AIClient
\* One request sent through AIClient.sendRequest (ai-client.ts:74-108), with
\* the transport (fetch, the response body, the timers) as the environment.

MaxRetries == 2         \* largest config.maxRetries tried
MaxDelivered == 3       \* fragments streamed to the caller over all attempts
MaxChunkLines == 1      \* lines in one chunk

\* text fragments a response carries
Frags == {"a", "b"}

\* HTTP statuses with response.ok false, and the error bodies served with them
ErrorStatuses == {401, 403, 429, 500, 501}
ErrorBodies == {<<>>, STR.body_unauthorized, STR.body_rate_limit}

\* parsed bodies of a successful non-streamed response
JsonBodies ==
    [shape : {"message", "text", "flat"}, content : {<<"a">>, <<"b", "a">>}]
        \cup {[shape |-> "other", content |-> <<>>]}

\* extractContent (ai-client.ts:352-366)
extractContent(data) ==
    IF data.shape \in {"message", "text"} THEN data.content
    ELSE IF data.shape = "flat" THEN data.content
    ELSE <<>>

\* One line of a streamed body.  prefix: the line starts with `data: `;
\* payload: what follows, either the [DONE] sentinel, a JSON document with
\* or without choices[0].delta.content, text that is not JSON (it mentions
\* the fragment "x"), or nothing but blanks.
NoDelta == <<"undefined">>
SseLine(prefix, payload) == [prefix |-> prefix, payload |-> payload]
Payload(t, delta) == [t |-> t, delta |-> delta]

SseLines ==
    {SseLine(TRUE, Payload("json", <<f>>)) : f \in Frags}
        \cup {SseLine(TRUE, Payload("json", <<>>)),
              SseLine(TRUE, Payload("json", NoDelta)),
              SseLine(TRUE, Payload("done", NoDelta)),
              SseLine(TRUE, Payload("text", <<"x">>)),
              SseLine(FALSE, Payload("json", <<"b">>)),
              SseLine(FALSE, Payload("blank", NoDelta))}

Chunks ==
    UNION {[1..n -> SseLines] : n \in 1..MaxChunkLines}

\* the state of the RequestQueue (request-queue.ts), declared here because the
\* client actions leave it unchanged
VARIABLES
    maxConcurrent,      \* RequestQueue.maxConcurrent
    activeRequests,     \* RequestQueue.activeRequests: the keys of the Map
    pendingRequests,    \* RequestQueue.pendingRequests: QueuedRequest[]
    completedCount,     \* RequestQueue.completedCount
    failedCount,        \* RequestQueue.failedCount
    promise,            \* state of the promise returned by enqueue, per request
    rejection,          \* the error a rejected promise carries, per request
    settles,            \* number of resolve/reject calls made on it, per request
    call,               \* the sendRequest call made by executeRequest, per request
    sendCalls,          \* number of sendRequest calls made for it, per request
    cancelReq,          \* running requests for which aiClient.cancelRequest(id) was called
    waitOrder,          \* waiting request ids in order of arrival
    admitted            \* ids the last operation moved from waiting to active, in order

qvars == <<maxConcurrent, activeRequests, pendingRequests, completedCount,
           failedCount, promise, rejection, settles, call, sendCalls,
           cancelReq, waitOrder, admitted>>

VARIABLES
    maxRetries,         \* AIClient.config.maxRetries
    request,            \* which optional fields the AIRequest carries
    cancelled,          \* CancelToken: the cancelled flag
    callbacks,          \* CancelToken: number of callbacks stored
    pc,                 \* where the sendRequest call stands
    attempt,            \* sendRequest: attempt
    lastError,          \* sendRequest: message of lastError, <<>> for null
    aborted,            \* executeRequest: controller.signal.aborted
    clientActive,       \* AIClient.activeRequests.has(request.id)
    timerArmed,         \* executeRequest: the timeout timer is pending
    httpStatus,         \* executeRequest: response.status of a response not ok
    fullContent,        \* handleStreamResponse: fullContent
    response,           \* the AIResponse sendRequest resolved with
    error,              \* the AIError sendRequest rejected with
    fetchCalls,         \* number of fetch calls made
    delivered,          \* fragments passed to request.onStream, in order
    served,             \* delta fragments the transport served in this attempt
    allRetryable,       \* every failed attempt so far classifies as retryable
    sleeps,             \* the delays slept between attempts, in ms
    cancelPoint,        \* where the call stood when the token was cancelled
    malformedAt         \* fragments served in this attempt before its first
                        \* data line that is not JSON, -1 if there was none

cvars == <<maxRetries, request, cancelled, callbacks, pc, attempt, lastError,
           aborted, clientActive, timerArmed, httpStatus, fullContent,
           response, error, fetchCalls, delivered, served, allRetryable,
           sleeps, cancelPoint, malformedAt>>

NoResponse == [content |-> <<"none">>]

CCur == [maxRetries |-> maxRetries, request |-> request,
         cancelled |-> cancelled, callbacks |-> callbacks, pc |-> pc,
         attempt |-> attempt, lastError |-> lastError, aborted |-> aborted,
         clientActive |-> clientActive, timerArmed |-> timerArmed,
         httpStatus |-> httpStatus, fullContent |-> fullContent,
         response |-> response, error |-> error,
         fetchCalls |-> fetchCalls, delivered |-> delivered,
         served |-> served, allRetryable |-> allRetryable, sleeps |-> sleeps,
         cancelPoint |-> cancelPoint, malformedAt |-> malformedAt]

ClientBecomes(c) ==
    /\ maxRetries' = c.maxRetries
    /\ request' = c.request
    /\ cancelled' = c.cancelled
    /\ callbacks' = c.callbacks
    /\ pc' = c.pc
    /\ attempt' = c.attempt
    /\ lastError' = c.lastError
    /\ aborted' = c.aborted
    /\ clientActive' = c.clientActive
    /\ timerArmed' = c.timerArmed
    /\ httpStatus' = c.httpStatus
    /\ fullContent' = c.fullContent
    /\ response' = c.response
    /\ error' = c.error
    /\ fetchCalls' = c.fetchCalls
    /\ delivered' = c.delivered
    /\ served' = c.served
    /\ allRetryable' = c.allRetryable
    /\ sleeps' = c.sleeps
    /\ cancelPoint' = c.cancelPoint
    /\ malformedAt' = c.malformedAt

CBecomes(c) ==
    /\ ClientBecomes(c)
    /\ UNCHANGED qvars
    /\ UNCHANGED tvars
    /\ UNCHANGED evars
    /\ UNCHANGED pvars
    /\ UNCHANGED svars
    /\ UNCHANGED uvars

\* an HTTP attempt is in flight: executeRequest awaits fetch, the error body,
\* the JSON body or the next chunk of the stream
InFlight(c) == c.pc \in {"fetch", "errbody", "json", "stream"}

\* sendRequest has returned a response or thrown an error
Settled(c) == c.response # NoResponse \/ c.error # NoError

\* onCancel that only stores the callback, also on a cancelled token
onCancel_storesOnly(c) ==
    [c EXCEPT !.callbacks = @ + 1]

\* CancelToken.onCancel (ai-client.ts:30-36) with the callback of
\* executeRequest, () => controller.abort()
onCancel(c) ==
    IF c.cancelled
    THEN [c EXCEPT !.aborted = TRUE]
    ELSE [c EXCEPT !.callbacks = @ + 1]

\* CancelToken.cancel (ai-client.ts:24-29): every stored callback aborts the
\* controller of the attempt that registered it; only the controller of an
\* attempt still in flight has anything to abort.
tokenCancel(c) ==
    IF ~c.cancelled
    THEN [c EXCEPT !.cancelled = TRUE,
                   !.aborted = IF InFlight(c) THEN TRUE ELSE @,
                   !.cancelPoint = c.pc]
    ELSE c

\* cancelRequest that aborts without looking the controller up
AIClient_cancelRequest_abortsAny(c) ==
    [c EXCEPT !.aborted = TRUE, !.clientActive = FALSE]

\* cancelRequest that fails the call at once and leaves the transport alone
AIClient_cancelRequest_settlesEarly(c) ==
    IF c.clientActive
    THEN [c EXCEPT !.clientActive = FALSE,
                   !.error = AIError("unknown", MSG.cancelled, FALSE)]
    ELSE c

\* AIClient.cancelRequest (ai-client.ts:497-503)
AIClient_cancelRequest(c) ==
    IF c.clientActive
    THEN [c EXCEPT !.aborted = TRUE, !.clientActive = FALSE]
    ELSE c

\* executeRequest with the streamed content kept from attempt to attempt
AIClient_executeRequest_keepsContent(c) ==
    LET c1 == [c EXCEPT !.aborted = FALSE,
                        !.clientActive = TRUE,
                        !.timerArmed = TRUE,
                        !.served = <<>>,
                        !.malformedAt = -1]
        c2 == IF c1.request.cancelToken THEN onCancel(c1) ELSE c1
    IN  [c2 EXCEPT !.fetchCalls = @ + 1, !.pc = "fetch"]

\* buildRequestBody (ai-client.ts:229-260): the stream member of the body,
\* set to true for a streaming request and left out otherwise
buildRequestBody(r) == [stream |-> IF r.stream THEN "true" ELSE "absent"]

\* executeRequest up to the fetch call (ai-client.ts:142-174)
AIClient_executeRequest(c) ==
    LET c1 == [c EXCEPT !.aborted = FALSE,
                        !.clientActive = TRUE,
                        !.timerArmed = TRUE,
                        !.fullContent = <<>>,
                        !.served = <<>>,
                        !.malformedAt = -1]
        c2 == IF c1.request.cancelToken THEN onCancel(c1) ELSE c1
    IN  [c2 EXCEPT !.fetchCalls = @ + 1, !.pc = "fetch"]

\* the catch and finally blocks of executeRequest (ai-client.ts:204-220):
\* the message of the error that executeRequest throws
ThrownMessage(c, err) ==
    IF err.name = "AbortError"
    THEN IF c.request.cancelToken /\ c.cancelled
         THEN STR.request_cancelled
         ELSE STR.request_timeout
    ELSE err.message

JsError(name, message) == [name |-> name, message |-> message]

AbortError == JsError("AbortError", <<>>)

rejectWith(c, e) == [c EXCEPT !.pc = "rejected", !.error = e]

\* the catch block of sendRequest with the last error rethrown as it is
\* when the retries are exhausted
sendRequest_catch_rethrows(c, message) ==
    LET c1 == [c EXCEPT !.lastError = message,
                        !.allRetryable =
                            @ /\ convertToAIError(message).retryable]
    IN  IF ~isRetryableError(message)
        THEN rejectWith(c1, convertToAIError(message))
        ELSE IF c1.request.cancelToken /\ c1.cancelled
        THEN rejectWith(c1, convertToAIError(STR.request_cancelled))
        ELSE IF c1.attempt + 1 <= c1.maxRetries
        THEN [c1 EXCEPT !.attempt = @ + 1,
                        !.pc = "sleep",
                        !.sleeps = Append(@, (2 ^ c1.attempt) * 1000)]
        ELSE rejectWith([c1 EXCEPT !.attempt = @ + 1],
                        JsError("Error", c1.lastError))

\* the catch block of sendRequest with the same delay before every retry
sendRequest_catch_fixedDelay(c, message) ==
    LET c1 == [c EXCEPT !.lastError = message,
                        !.allRetryable =
                            @ /\ convertToAIError(message).retryable]
    IN  IF ~isRetryableError(message)
        THEN rejectWith(c1, convertToAIError(message))
        ELSE IF c1.request.cancelToken /\ c1.cancelled
        THEN rejectWith(c1, convertToAIError(STR.request_cancelled))
        ELSE IF c1.attempt + 1 <= c1.maxRetries
        THEN [c1 EXCEPT !.attempt = @ + 1,
                        !.pc = "sleep",
                        !.sleeps = Append(@, 1000)]
        ELSE rejectWith([c1 EXCEPT !.attempt = @ + 1],
                        convertToAIError(c1.lastError))

\* the catch block of sendRequest (ai-client.ts:83-103), entered with the
\* error executeRequest threw
sendRequest_catch(c, message) ==
    LET c1 == [c EXCEPT !.lastError = message,
                        !.allRetryable =
                            @ /\ convertToAIError(message).retryable]
    IN  IF ~isRetryableError(message)
        THEN rejectWith(c1, convertToAIError(message))
        ELSE IF c1.request.cancelToken /\ c1.cancelled
        THEN rejectWith(c1, convertToAIError(STR.request_cancelled))
        ELSE IF c1.attempt + 1 <= c1.maxRetries
        THEN [c1 EXCEPT !.attempt = @ + 1,
                        !.pc = "sleep",
                        !.sleeps = Append(@, (2 ^ c1.attempt) * 1000)]
        ELSE rejectWith([c1 EXCEPT !.attempt = @ + 1],
                        convertToAIError(c1.lastError))

\* a failing attempt whose finally block leaves the controller in the map
attemptFails_keepsHandle(c, err) ==
    sendRequest_catch([c EXCEPT !.timerArmed = FALSE],
                      ThrownMessage(c, err))

\* an attempt fails with err: catch and finally of executeRequest, then the
\* catch of sendRequest
attemptFails(c, err) ==
    sendRequest_catch([c EXCEPT !.timerArmed = FALSE,
                                !.clientActive = FALSE],
                      ThrownMessage(c, err))

\* an attempt returns a response: finally of executeRequest, return of
\* sendRequest (ai-client.ts:81-82)
attemptSucceeds(c, content) ==
    [c EXCEPT !.timerArmed = FALSE,
              !.clientActive = FALSE,
              !.pc = "resolved",
              !.response = [content |-> content]]

\* processLine that takes a payload that is not JSON as plain text
processLine_rawFallback(c, line) ==
    IF ~line.prefix THEN c
    ELSE IF line.payload.t = "done" THEN c
    ELSE LET delta == line.payload.delta
         IN  IF delta # NoDelta /\ delta # <<>>
             THEN [c EXCEPT !.fullContent = @ \o delta,
                            !.delivered = IF c.request.onStream
                                          THEN @ \o delta ELSE @]
             ELSE c

\* the body of the for loop over the lines of a chunk
\* (ai-client.ts:291-327)
processLine(c, line) ==
    IF ~line.prefix THEN c
    ELSE IF line.payload.t = "done" THEN c
    ELSE IF line.payload.t # "json" THEN c
    ELSE LET delta == line.payload.delta
         IN  IF delta # NoDelta /\ delta # <<>>
             THEN [c EXCEPT !.fullContent = @ \o delta,
                            !.delivered = IF c.request.onStream
                                          THEN @ \o delta ELSE @]
             ELSE c

RECURSIVE processLines(_, _)
processLines(c, lines) ==
    IF lines = <<>> THEN c
    ELSE processLines(processLine(c, Head(lines)), Tail(lines))

\* chunk.split('\n').filter(line => line.trim() !== '') (ai-client.ts:289)
NonBlank(lines) == SelectSeq(lines, LAMBDA l : l.payload.t # "blank" \/ l.prefix)

\* the valid delta fragments a chunk carries
DeltasOf(lines) ==
    LET keep == SelectSeq(lines, LAMBDA l :
                    /\ l.prefix /\ l.payload.t = "json"
                    /\ l.payload.delta # NoDelta)
        F[k \in 0..Len(keep)] ==
            IF k = 0 THEN <<>> ELSE F[k - 1] \o keep[k].payload.delta
    IN  F[Len(keep)]

\* a data line whose payload is not JSON
Malformed(line) == line.prefix /\ line.payload.t = "text"

\* the lines of a chunk before its first malformed data line
BeforeMalformed(lines) ==
    LET bad == {k \in 1..Len(lines) : Malformed(lines[k])}
    IN  IF bad = {} THEN lines
        ELSE SubSeq(lines, 1, (CHOOSE k \in bad : \A m \in bad : k <= m) - 1)

\* one pass of the read loop of handleStreamResponse (ai-client.ts:280-328)
streamChunk(c, chunk) ==
    processLines(
        [c EXCEPT !.served = @ \o DeltasOf(chunk),
                  !.malformedAt =
                      IF @ = -1 /\ \E k \in 1..Len(chunk) : Malformed(chunk[k])
                      THEN Len(c.served) + Len(DeltasOf(BeforeMalformed(chunk)))
                      ELSE @],
        NonBlank(chunk))

\* ---------------------------------------------------------- client actions
\* a caller calls sendRequest(request)
SendRequest ==
    /\ pc = "idle"
    /\ CBecomes(AIClient_executeRequest([CCur EXCEPT !.attempt = 0]))

\* the backoff delay is over; the loop starts the next attempt
SleepEnds ==
    /\ pc = "sleep"
    /\ CBecomes(AIClient_executeRequest(CCur))

\* fetch resolves with the response head
FetchResolves(status) ==
    /\ pc = "fetch"
    /\ ~aborted
    /\ CBecomes([CCur EXCEPT
            !.timerArmed = FALSE,
            !.httpStatus = status,
            !.pc = IF status # 200 THEN "errbody"
                   ELSE IF request.stream /\ request.onStream THEN "stream"
                   ELSE "json"])

\* fetch rejects: the connection failed
FetchFails ==
    /\ pc = "fetch"
    /\ ~aborted
    /\ CBecomes(attemptFails(CCur, JsError("TypeError", STR.failed_to_fetch)))

\* the timeout timer fires and aborts the fetch
TimerFires ==
    /\ pc = "fetch"
    /\ timerArmed
    /\ ~aborted
    /\ CBecomes([CCur EXCEPT !.aborted = TRUE, !.timerArmed = FALSE])

\* the pending await of an aborted attempt rejects with an AbortError
AbortObserved ==
    /\ InFlight(CCur)
    /\ aborted
    /\ CBecomes(attemptFails(CCur, AbortError))

\* response.text() of a response that is not ok (ai-client.ts:179-182)
ErrorBodyRead(errorText) ==
    /\ pc = "errbody"
    /\ ~aborted
    /\ CBecomes(attemptFails(CCur,
            JsError("Error", ApiErrorMessage(httpStatus, errorText))))

\* response.json() resolves (ai-client.ts:190-202)
JsonRead(data) ==
    /\ pc = "json"
    /\ ~aborted
    /\ CBecomes(attemptSucceeds([CCur EXCEPT !.served = data.content],
                                extractContent(data)))

\* response.json() rejects: the body is not JSON
JsonFails ==
    /\ pc = "json"
    /\ ~aborted
    /\ CBecomes(attemptFails(CCur,
            JsError("SyntaxError", STR.unexpected_token)))

\* reader.read() resolves with a chunk
StreamChunk(chunk) ==
    /\ pc = "stream"
    /\ ~aborted
    /\ Len(delivered) + Len(DeltasOf(chunk)) <= MaxDelivered
    /\ CBecomes(streamChunk(CCur, chunk))

\* reader.read() resolves with done (ai-client.ts:283-285, 333-343)
StreamEnds ==
    /\ pc = "stream"
    /\ ~aborted
    /\ CBecomes(attemptSucceeds(CCur, fullContent))

\* reader.read() rejects: the connection broke in the middle of the body
StreamBreaks ==
    /\ pc = "stream"
    /\ ~aborted
    /\ CBecomes(attemptFails(CCur, JsError("TypeError", STR.network_error)))

\* somebody calls request.cancelToken.cancel()
TokenCancel ==
    /\ request.cancelToken
    /\ ~cancelled
    /\ CBecomes(tokenCancel(CCur))

\* somebody calls client.cancelRequest(request.id), at any time
CancelRequest ==
    /\ CBecomes(AIClient_cancelRequest(CCur))

\* ------------------------------------------------- cancel token operations
\* the closure state of a token together with the trace of the call that is
\* running on it: the callbacks it has invoked and whether it has thrown
Running(t) == [cancelled |-> t.cancelled, callbacks |-> t.callbacks,
               ran |-> <<>>, threw |-> FALSE]

RECURSIVE CancelToken_cancel(_)
RECURSIVE invoke(_, _)
RECURSIVE forEach(_, _)

\* cb(): the callback runs; one of kind "cancels" calls token.cancel()
invoke(r, cb) ==
    LET r1 == [r EXCEPT !.ran = Append(@, cb.id)]
    IN  IF cb.kind = "throws" THEN [r1 EXCEPT !.threw = TRUE]
        ELSE IF cb.kind = "cancels" THEN CancelToken_cancel(r1)
        ELSE r1

\* callbacks.forEach(cb => cb()) (ai-client.ts:27): an exception thrown by a
\* callback ends the loop
forEach(r, cbs) ==
    IF cbs = <<>> \/ r.threw THEN r
    ELSE forEach(invoke(r, Head(cbs)), Tail(cbs))

\* cancel (ai-client.ts:24-29)
CancelToken_cancel(r) ==
    IF ~r.cancelled
    THEN forEach([r EXCEPT !.cancelled = TRUE], r.callbacks)
    ELSE r

\* onCancel that stores the callback whatever the flag says
CancelToken_onCancel_alwaysStores(r, cb) ==
    [r EXCEPT !.callbacks = Append(@, cb)]

\* onCancel (ai-client.ts:30-36)
CancelToken_onCancel(r, cb) ==
    IF r.cancelled
    THEN invoke(r, cb)
    ELSE [r EXCEPT !.callbacks = Append(@, cb)]

\* the state after a call on the token has returned or thrown
TokenBecomes(r, op, arg) ==
    /\ token' = [cancelled |-> r.cancelled, callbacks |-> r.callbacks]
    /\ tokenLog' = [invoked |-> tokenLog.invoked \o r.ran,
                    registered |-> IF op = "onCancel"
                                   THEN tokenLog.registered + 1
                                   ELSE tokenLog.registered,
                    last |-> [op |-> op, cb |-> arg, ran |-> r.ran,
                              threw |-> r.threw]]
    /\ UNCHANGED <<maxConcurrent, activeRequests, pendingRequests,
                   completedCount, failedCount, promise, rejection, settles,
                   call, sendCalls, cancelReq, waitOrder, admitted>>
    /\ UNCHANGED <<maxRetries, request, cancelled, callbacks, pc, attempt,
                   lastError, aborted, clientActive, timerArmed, httpStatus,
                   fullContent, response, error, fetchCalls, delivered,
                   served, allRetryable, sleeps, cancelPoint, malformedAt>>
    /\ UNCHANGED evars
    /\ UNCHANGED pvars
    /\ UNCHANGED svars
    /\ UNCHANGED uvars

\* a caller calls token.cancel()
CallCancel ==
    /\ TokenBecomes(CancelToken_cancel(Running(token)), "cancel", 0)

\* a caller calls token.onCancel(cb) with a new callback
CallOnCancel(kind) ==
    /\ tokenLog.registered < MaxCallbacks
    /\ TokenBecomes(CancelToken_onCancel(Running(token),
                        Callback(tokenLog.registered + 1, kind)),
                    "onCancel", tokenLog.registered + 1)

\* createCancelToken (ai-client.ts:16-18)
TokenInit ==
    /\ token = [cancelled |-> FALSE, callbacks |-> <<>>]
    /\ tokenLog = [invoked |-> <<>>, registered |-> 0,
                   last |-> [op |-> "none", cb |-> 0, ran |-> <<>>,
                             threw |-> FALSE]]

\* ------------------------------------------------------ classifier operations
\* HTTP statuses and bodies of the responses classified, and the messages of
\* the exceptions classified
ErrorInputs ==
    [status : {400, 401, 403, 404, 405, 429, 500, 501, 502, 503, 504},
     text : {<<>>, STR.body_unauthorized, STR.body_rate_limit,
             STR.body_cancelled, STR.body_timeout}]
        \cup [status : {0},
              text : {STR.request_cancelled, STR.request_timeout,
                      STR.request_failed, STR.failed_to_fetch,
                      STR.network_error, STR.unexpected_token}]

\* error.message of the error that reaches the catch block of sendRequest
MessageOf(input) ==
    IF input.status = 0 THEN input.text
    ELSE ApiErrorMessage(input.status, input.text)

NoInput == [status |-> 0, text |-> <<>>]

ClassifierIdle ==
    /\ errorInput = NoInput
    /\ classified = NoError
    /\ retryDecision = "none"

\* the catch block of sendRequest consults both classifiers
\* (ai-client.ts:87-88)
Classify ==
    /\ classified = NoError
    /\ errorInput # NoInput
    /\ classified' = convertToAIError(MessageOf(errorInput))
    /\ retryDecision' = IF isRetryableError(MessageOf(errorInput))
                        THEN "retry" ELSE "fail"
    /\ UNCHANGED <<errorInput, qvars, cvars, tvars, pvars, svars, uvars>>

\* --------------------------------------------------- connection test steps
\* the statuses the endpoint answers the probe with
ProbeStatuses == {200, 201, 204, 299, 300, 304, 400, 401, 403, 404, 429,
                  500, 502, 503}

\* Response.ok: the status is in the range 200-299
ResponseOk(status) == status \in 200..299

NoProbe == [pc |-> "idle", timerArmed |-> FALSE, aborted |-> FALSE,
            status |-> 0, result |-> "none", threw |-> FALSE]

ProbeIdle == probe = [k \in Probes |-> NoProbe]

\* the try block up to the fetch call (ai-client.ts:514-531)
testConnection(p) ==
    [p EXCEPT !.pc = "fetch", !.timerArmed = TRUE]

\* fetch resolves: clearTimeout and return response.ok (ai-client.ts:533-534)
testConnection_return(p, status) ==
    [p EXCEPT !.pc = "done", !.timerArmed = FALSE, !.status = status,
              !.result = IF ResponseOk(status) THEN "true" ELSE "false"]

\* a catch block that logs the error and throws it again
testConnection_catch_rethrows(p) ==
    [p EXCEPT !.pc = "done", !.threw = TRUE]

\* the catch block (ai-client.ts:536-539): the timer is left as it is
testConnection_catch(p) ==
    [p EXCEPT !.pc = "done", !.result = "false"]

ProbeBecomes(k, p) ==
    /\ probe' = [probe EXCEPT ![k] = p]
    /\ UNCHANGED <<qvars, cvars, tvars, evars, svars, uvars>>

TestConnection(k) ==
    /\ probe[k].pc = "idle"
    /\ ProbeBecomes(k, testConnection(probe[k]))

ProbeFetchResolves(k, status) ==
    /\ probe[k].pc = "fetch"
    /\ ~probe[k].aborted
    /\ ProbeBecomes(k, testConnection_return(probe[k], status))

\* fetch rejects: the connection failed
ProbeFetchFails(k) ==
    /\ probe[k].pc = "fetch"
    /\ ~probe[k].aborted
    /\ ProbeBecomes(k, testConnection_catch(probe[k]))

\* the timer of the call fires: controller.abort(), which only a pending
\* fetch notices
ProbeTimerFires(k) ==
    /\ probe[k].timerArmed
    /\ ProbeBecomes(k, [probe[k] EXCEPT !.timerArmed = FALSE,
                                        !.aborted = TRUE])

\* the aborted fetch rejects with an AbortError
ProbeAbortObserved(k) ==
    /\ probe[k].pc = "fetch"
    /\ probe[k].aborted
    /\ ProbeBecomes(k, testConnection_catch(probe[k]))

\* --------------------------------------------------------- SSE reader steps
\* The characters of a body.  LF is the newline; the six characters of
\* DataPrefix are `data: `; "{" stands for the opening of a JSON document up
\* to the text of choices[0].delta.content and "}" for its closing, so that
\* a document is "{", the characters of the content, "}".
LF == "LF"

DataPrefix == <<"d", "a", "t", "a", ":", " ">>

DoneMark == <<"[", "]">>

SseText(prefix, payload) ==
    (IF prefix THEN DataPrefix ELSE <<>>) \o payload \o <<LF>>

\* the lines a body is made of: deltas, an empty delta, [DONE], a document
\* cut short, a blank line, a line without the prefix
SseTexts ==
    {SseText(TRUE, <<"{", f, "}">>) : f \in Frags}
        \cup {SseText(TRUE, <<"{", "}">>),
              SseText(TRUE, DoneMark),
              SseText(TRUE, <<"{", "x">>),
              SseText(FALSE, <<>>),
              SseText(FALSE, <<"{", "b", "}">>)}

RECURSIVE Flatten(_)
Flatten(texts) ==
    IF texts = <<>> THEN <<>> ELSE Head(texts) \o Flatten(Tail(texts))

\* chunk.split('\n') (ai-client.ts:289)
RECURSIVE split(_, _)
split(text, piece) ==
    IF text = <<>> THEN <<piece>>
    ELSE IF Head(text) = LF
         THEN <<piece>> \o split(Tail(text), <<>>)
         ELSE split(Tail(text), Append(piece, Head(text)))

\* line.trim() !== ''
NotBlank(line) == \E k \in 1..Len(line) : line[k] # " "

\* line.startsWith('data: ')
startsWith(line, prefix) ==
    Len(line) >= Len(prefix) /\ SubSeq(line, 1, Len(prefix)) = prefix

\* line.slice(6)
slice(line, n) == SubSeq(line, n + 1, Len(line))

\* JSON.parse(data) returns: data is a whole document
JSON_parses(data) ==
    /\ Len(data) >= 2
    /\ data[1] = "{"
    /\ data[Len(data)] = "}"
    /\ \A k \in 2..(Len(data) - 1) : data[k] \in Frags

\* parsed.choices?.[0]?.delta?.content
deltaOf(data) == SubSeq(data, 2, Len(data) - 1)

\* the body of the for loop (ai-client.ts:291-327) on a line of text
handleLine(r, line) ==
    IF ~startsWith(line, DataPrefix) THEN r
    ELSE LET data == slice(line, Len(DataPrefix))
         IN  IF data = DoneMark THEN r
             ELSE IF ~JSON_parses(data) THEN r
             ELSE IF deltaOf(data) = <<>> THEN r
             ELSE [r EXCEPT !.fullContent = @ \o deltaOf(data),
                            !.calls = Append(@, deltaOf(data))]

RECURSIVE handleLines(_, _)
handleLines(r, lines) ==
    IF lines = <<>> THEN r
    ELSE handleLines(handleLine(r, Head(lines)), Tail(lines))

\* one pass of the read loop of handleStreamResponse (ai-client.ts:280-328)
\* on the chunk that reader.read() returned
handleStreamResponse(r, chunk) ==
    handleLines(r, SelectSeq(split(chunk, <<>>), NotBlank))

NoReader == [lines |-> <<>>, pos |-> 0, pc |-> "idle", fullContent |-> <<>>,
             calls |-> <<>>, aligned |-> TRUE]

ReaderIdle == reader = NoReader

ReaderBecomes(r) ==
    /\ reader' = r
    /\ UNCHANGED <<qvars, cvars, tvars, evars, pvars, uvars>>

\* reader.read() resolves with the next n characters of the body
Read(n) ==
    /\ reader.pc = "reading"
    /\ n \in 1..(Len(Flatten(reader.lines)) - reader.pos)
    /\ LET body == Flatten(reader.lines)
           chunk == SubSeq(body, reader.pos + 1, reader.pos + n)
       IN  ReaderBecomes(
               [handleStreamResponse(reader, chunk)
                   EXCEPT !.pos = @ + n,
                          !.aligned = @ /\ body[reader.pos + n] = LF])

\* reader.read() resolves with done
ReadDone ==
    /\ reader.pc = "reading"
    /\ reader.pos = Len(Flatten(reader.lines))
    /\ ReaderBecomes([reader EXCEPT !.pc = "done"])

\* -------------------------------------------------------------- editor steps
\* the renderer and the prompts as one value
ECur == [streamResponse |-> streamResponse,
         streamedContentMap |-> streamedContentMap,
         cursorHideStyleEl |-> cursorHideStyleEl,
         prompt |-> prompt, unloaded |-> unloaded]

EditorBecomes(u) ==
    /\ streamResponse' = u.streamResponse
    /\ streamedContentMap' = u.streamedContentMap
    /\ cursorHideStyleEl' = u.cursorHideStyleEl
    /\ prompt' = u.prompt
    /\ unloaded' = u.unloaded
    /\ UNCHANGED <<qvars, cvars, tvars, evars, pvars, svars>>

\* Map.set and Map.delete
MapSet(m, k, v) == [j \in DOMAIN m \cup {k} |-> IF j = k THEN v ELSE m[j]]
MapDelete(m, k) == [j \in DOMAIN m \ {k} |-> m[j]]
EmptyMap == [j \in {} |-> 0]

\* hideCursor (response-renderer:35-55)
hideCursor(u) == [u EXCEPT !.cursorHideStyleEl = TRUE]

\* showCursor (response-renderer:61-70)
showCursor(u) == [u EXCEPT !.cursorHideStyleEl = FALSE]

\* initStreamContent (response-renderer:77-83)
initStreamContent(u, id) ==
    hideCursor([u EXCEPT !.streamedContentMap = MapSet(@, id, 0)])

\* clearStreamContent (response-renderer:90-93)
clearStreamContent(u, id) ==
    [u EXCEPT !.streamedContentMap = MapDelete(@, id)]

\* handleStreamChunk (response-renderer:105-114): the fragment is appended
\* to the entry of the request, which is created when there is none
handleStreamChunk(u, id) ==
    [u EXCEPT !.streamedContentMap =
        MapSet(@, id, IF id \in DOMAIN @ THEN @[id] + 1 ELSE 1)]

\* finalizeStreamResponse (response-renderer:276-329)
finalizeStreamResponse(u, id) ==
    showCursor(clearStreamContent(u, id))

\* ResponseRenderer.cleanup (response-renderer:368-374)
ResponseRenderer_cleanup(u) ==
    showCursor([u EXCEPT !.streamedContentMap = EmptyMap])

NoPrompt == [pc |-> "idle", stream |-> FALSE, outcome |-> "none",
             fragments |-> 0]

\* submitPrompt up to `await this.aiClient.sendRequest(request)`
\* (editor-ui-controller.ts:80-192)
submitPrompt(u, id) ==
    LET u1 == IF u.streamResponse THEN initStreamContent(u, id) ELSE u
    IN  [u1 EXCEPT !.prompt[id] = [pc |-> "sending",
                                   stream |-> u.streamResponse,
                                   outcome |-> "none", fragments |-> 0]]

\* the finally block of submitPrompt (editor-ui-controller.ts:226-234)
submitPrompt_finally(u, id) ==
    LET u1 == IF u.streamResponse THEN clearStreamContent(u, id) ELSE u
    IN  [u1 EXCEPT !.prompt[id].pc = "done"]

\* the rest of the try block, once sendRequest has returned a response
\* (editor-ui-controller.ts:194-215), and the finally block
submitPrompt_return(u, id) ==
    LET u1 == IF u.streamResponse THEN finalizeStreamResponse(u, id) ELSE u
    IN  submitPrompt_finally([u1 EXCEPT !.prompt[id].outcome = "response"],
                             id)

\* the catch block (editor-ui-controller.ts:217-224), whose showError and
\* insertError (response-renderer:338-363) write the message into the
\* note and leave the renderer as it is, and the finally block
submitPrompt_catch(u, id) ==
    submitPrompt_finally([u EXCEPT !.prompt[id].outcome = "error"], id)

\* EditorUIController.cleanup (editor-ui-controller.ts:332-349)
EditorUIController_cleanup(u) ==
    [ResponseRenderer_cleanup(u) EXCEPT !.unloaded = TRUE]

EditorIdle ==
    /\ streamResponse = TRUE
    /\ streamedContentMap = EmptyMap
    /\ cursorHideStyleEl = FALSE
    /\ prompt = [id \in PromptIds |-> NoPrompt]
    /\ unloaded = FALSE

\* the user submits a prompt
SubmitPrompt(id) ==
    /\ ~unloaded
    /\ prompt[id].pc = "idle"
    /\ EditorBecomes(submitPrompt(ECur, id))

\* the client passes a fragment to request.onStream
OnStream(id) ==
    /\ prompt[id].pc = "sending"
    /\ prompt[id].stream
    /\ prompt[id].fragments < MaxFragments
    /\ EditorBecomes([handleStreamChunk(ECur, id)
                         EXCEPT !.prompt[id].fragments = @ + 1])

\* sendRequest resolves
PromptResolves(id) ==
    /\ prompt[id].pc = "sending"
    /\ EditorBecomes(submitPrompt_return(ECur, id))

\* sendRequest rejects
PromptRejects(id) ==
    /\ prompt[id].pc = "sending"
    /\ EditorBecomes(submitPrompt_catch(ECur, id))

\* the user changes the streaming setting
ChangeSetting ==
    /\ ~unloaded
    /\ EditorBecomes([ECur EXCEPT !.streamResponse = ~@])

\* the plugin is unloaded
Unload ==
    /\ ~unloaded
    /\ EditorBecomes(EditorUIController_cleanup(ECur))

\* the client before sendRequest is called
ClientIdle ==
    /\ cancelled = FALSE
    /\ callbacks = 0
    /\ pc = "idle"
    /\ attempt = 0
    /\ lastError = <<>>
    /\ aborted = FALSE
    /\ clientActive = FALSE
    /\ timerArmed = FALSE
    /\ httpStatus = 0
    /\ fullContent = <<>>
    /\ response = NoResponse
    /\ error = NoError
    /\ fetchCalls = 0
    /\ delivered = <<>>
    /\ served = <<>>
    /\ allRetryable = TRUE
    /\ sleeps = <<>>
    /\ cancelPoint = "none"
    /\ malformedAt = -1
    /\ TokenInit
    /\ ProbeIdle
    /\ EditorIdle

Requests ==
    {r \in [stream : BOOLEAN, onStream : BOOLEAN, cancelToken : BOOLEAN] :
        r.onStream => r.stream}

ClientInit ==
    /\ maxRetries \in 0..MaxRetries
    /\ request \in Requests
    /\ ClientIdle

ClientNext ==
    \/ SendRequest
    \/ SleepEnds
    \/ \E status \in ErrorStatuses \cup {200} : FetchResolves(status)
    \/ FetchFails
    \/ TimerFires
    \/ AbortObserved
    \/ \E errorText \in ErrorBodies : ErrorBodyRead(errorText)
    \/ \E data \in JsonBodies : JsonRead(data)
    \/ JsonFails
    \/ \E chunk \in Chunks : StreamChunk(chunk)
    \/ StreamEnds
    \/ StreamBreaks
    \/ TokenCancel
    \/ CancelRequest

vars == <<qvars, cvars, tvars, evars, pvars, svars, uvars>>

\* ============================================================ RequestQueue
\* The queue object and the per-request bookkeeping as one value, so that the
\* methods compose the way the code calls them.
\* A request is done when its promise has settled and the queue holds no
\* reference to it any more.  A state shows the outcome of the requests that
\* the last operation settled; the next operation starts without them.
Done(i) ==
    /\ promise[i] \in {"resolved", "rejected"}
    /\ call[i] = "idle"
    /\ \A k \in 1..Len(pendingRequests) : pendingRequests[k].id # i

Cur == [maxConcurrent |-> maxConcurrent, activeRequests |-> activeRequests,
        pendingRequests |-> pendingRequests, completedCount |-> completedCount,
        failedCount |-> failedCount,
        promise |-> [i \in Ids |-> IF Done(i) THEN "none" ELSE promise[i]],
        rejection |-> [i \in Ids |-> IF Done(i) THEN NoError ELSE rejection[i]],
        settles |-> [i \in Ids |-> IF Done(i) THEN 0 ELSE settles[i]],
        call |-> call,
        sendCalls |-> [i \in Ids |-> IF Done(i) THEN 0 ELSE sendCalls[i]],
        cancelReq |-> cancelReq,
        waitOrder |-> waitOrder, admitted |-> <<>>]

QueueBecomes(q) ==
    /\ maxConcurrent' = q.maxConcurrent
    /\ activeRequests' = q.activeRequests
    /\ pendingRequests' = q.pendingRequests
    /\ completedCount' = q.completedCount
    /\ failedCount' = q.failedCount
    /\ promise' = q.promise
    /\ rejection' = q.rejection
    /\ settles' = q.settles
    /\ call' = q.call
    /\ sendCalls' = q.sendCalls
    /\ cancelReq' = q.cancelReq
    /\ waitOrder' = q.waitOrder
    /\ admitted' = q.admitted

Becomes(q) ==
    /\ QueueBecomes(q)
    /\ UNCHANGED cvars
    /\ UNCHANGED tvars
    /\ UNCHANGED evars
    /\ UNCHANGED pvars
    /\ UNCHANGED svars
    /\ UNCHANGED uvars

QueuedRequest(i, p) == [id |-> i, priority |-> p]

RemoveAt(s, k) == SubSeq(s, 1, k - 1) \o SubSeq(s, k + 1, Len(s))

Without(s, x) == SelectSeq(s, LAMBDA y : y # x)

\* counter++ on a JavaScript number: n + 1 = n once n has reached 2^53; the
\* model scales that limit down to MaxCount.
Increment(n) == IF n < MaxCount THEN n + 1 ELSE n

\* resolve(response): a promise settles once, later calls have no effect
Resolve(q, i) ==
    [q EXCEPT !.promise[i] = IF @ = "pending" THEN "resolved" ELSE @,
              !.settles[i] = IF @ < 2 THEN @ + 1 ELSE @]

\* reject(error)
Reject(q, i, e) ==
    [q EXCEPT !.promise[i] = IF @ = "pending" THEN "rejected" ELSE @,
              !.rejection[i] = IF q.promise[i] = "pending" THEN e ELSE @,
              !.settles[i] = IF @ < 2 THEN @ + 1 ELSE @]

\* Array.prototype.sort((a, b) => b.priority - a.priority): a stable sort,
\* highest priority first.  InsertSorted puts x behind every element that
\* does not compare after it.
\* InsertSorted with the comparison turned into >=: entries of equal
\* priority come out newest first
RECURSIVE InsertSorted_unstable(_, _)
InsertSorted_unstable(s, x) ==
    IF s = <<>> THEN <<x>>
    ELSE IF x.priority - Head(s).priority >= 0
         THEN <<x>> \o s
         ELSE <<Head(s)>> \o InsertSorted_unstable(Tail(s), x)

RECURSIVE InsertSorted(_, _)
InsertSorted(s, x) ==
    IF s = <<>> THEN <<x>>
    ELSE IF x.priority - Head(s).priority > 0
         THEN <<x>> \o s
         ELSE <<Head(s)>> \o InsertSorted(Tail(s), x)

RECURSIVE SortByPriority(_)
SortByPriority(s) ==
    IF s = <<>> THEN <<>>
    ELSE InsertSorted(SortByPriority(SubSeq(s, 1, Len(s) - 1)), s[Len(s)])

\* executeRequest that calls aiClient.sendRequest a second time
executeRequest_sendsTwice(q, qr) ==
    [q EXCEPT !.call[qr.id] = "running",
              !.sendCalls[qr.id] = 2,
              !.activeRequests = @ \cup {qr.id},
              !.waitOrder = Without(@, qr.id)]

\* executeRequest (request-queue.ts:72-99): calls aiClient.sendRequest and
\* records the request as active.
executeRequest(q, qr) ==
    [q EXCEPT !.call[qr.id] = "running",
              !.sendCalls[qr.id] = IF @ < 2 THEN @ + 1 ELSE @,
              !.activeRequests = @ \cup {qr.id},
              !.waitOrder = Without(@, qr.id)]

\* processNext (request-queue.ts:104-113)
processNext(q) ==
    IF Len(q.pendingRequests) > 0
       /\ Cardinality(q.activeRequests) < q.maxConcurrent
    THEN executeRequest([q EXCEPT !.pendingRequests = Tail(@),
                                  !.admitted = Append(@, Head(q.pendingRequests).id)],
                        Head(q.pendingRequests))
    ELSE q

\* AIClient.cancelRequest as the queue sees it (ai-client.ts:497-503): the
\* in-flight attempt, if any, is aborted; the sendRequest call itself goes on
\* and settles later.
cancelRequest(q, i) == [q EXCEPT !.cancelReq = @ \cup {i}]

\* enqueue that admits while the active count is <= maxConcurrent
enqueue_admitsExtra(q, i, p) ==
    LET fresh == [q EXCEPT !.promise[i] = "pending",
                           !.rejection[i] = NoError,
                           !.settles[i] = 0,
                           !.sendCalls[i] = 0,
                           !.cancelReq = @ \ {i}]
    IN  IF Cardinality(fresh.activeRequests) <= fresh.maxConcurrent
        THEN executeRequest(fresh, QueuedRequest(i, p))
        ELSE [fresh EXCEPT
                !.pendingRequests =
                    SortByPriority(Append(@, QueuedRequest(i, p))),
                !.waitOrder = Append(@, i)]

\* enqueue (request-queue.ts:45-65)
enqueue(q, i, p) ==
    LET fresh == [q EXCEPT !.promise[i] = "pending",
                           !.rejection[i] = NoError,
                           !.settles[i] = 0,
                           !.sendCalls[i] = 0,
                           !.cancelReq = @ \ {i}]
    IN  IF Cardinality(fresh.activeRequests) < fresh.maxConcurrent
        THEN executeRequest(fresh, QueuedRequest(i, p))
        ELSE [fresh EXCEPT
                !.pendingRequests =
                    SortByPriority(Append(@, QueuedRequest(i, p))),
                !.waitOrder = Append(@, i)]

\* index of the first waiting entry with this id, 0 when there is none
\* (findIndex, request-queue.ts:135-137)
FindIndex(s, i) ==
    IF \E k \in 1..Len(s) : s[k].id = i
    THEN CHOOSE k \in 1..Len(s) :
            /\ s[k].id = i
            /\ \A j \in 1..(k - 1) : s[j].id # i
    ELSE 0

\* cancel that rejects a waiting request and leaves it in the waiting list
cancel_keepsEntry(q, i) ==
    LET q1 == IF i \in q.activeRequests
              THEN processNext([cancelRequest(q, i)
                                  EXCEPT !.activeRequests = @ \ {i}])
              ELSE q
        index == FindIndex(q1.pendingRequests, i)
    IN  IF index # 0
        THEN Reject(q1, i, QueueCancelError)
        ELSE q1

\* cancel that drops a waiting request without rejecting its promise
cancel_silent(q, i) ==
    LET q1 == IF i \in q.activeRequests
              THEN processNext([cancelRequest(q, i)
                                  EXCEPT !.activeRequests = @ \ {i}])
              ELSE q
        index == FindIndex(q1.pendingRequests, i)
    IN  IF index # 0
        THEN [q1 EXCEPT !.pendingRequests = RemoveAt(@, index),
                        !.waitOrder = Without(@, i)]
        ELSE q1

\* cancel that removes an active request and admits nobody in its place
cancel_noAdmit(q, i) ==
    LET q1 == IF i \in q.activeRequests
              THEN [cancelRequest(q, i) EXCEPT !.activeRequests = @ \ {i}]
              ELSE q
        index == FindIndex(q1.pendingRequests, i)
    IN  IF index # 0
        THEN Reject([q1 EXCEPT !.pendingRequests = RemoveAt(@, index),
                               !.waitOrder = Without(@, i)],
                    i, QueueCancelError)
        ELSE q1

\* cancel (request-queue.ts:124-150)
cancel(q, i) ==
    LET q1 == IF i \in q.activeRequests
              THEN processNext([cancelRequest(q, i)
                                  EXCEPT !.activeRequests = @ \ {i}])
              ELSE q
        index == FindIndex(q1.pendingRequests, i)
    IN  IF index # 0
        THEN Reject([q1 EXCEPT !.pendingRequests = RemoveAt(@, index),
                               !.waitOrder = Without(@, i)],
                    i, QueueCancelError)
        ELSE q1

RECURSIVE CancelAll(_, _)
CancelAll(q, S) ==
    IF S = {} THEN q
    ELSE LET i == CHOOSE x \in S : TRUE
         IN  CancelAll(cancelRequest(q, i), S \ {i})

RECURSIVE RejectAll(_, _, _)
RejectAll(q, s, e) ==
    IF s = <<>> THEN q
    ELSE RejectAll(Reject(q, Head(s).id, e), Tail(s), e)

\* clear that empties the map of active requests without cancelling them
clear_skipsCancel(q) ==
    LET q1 == [q EXCEPT !.activeRequests = {}]
        q2 == RejectAll(q1, q1.pendingRequests, QueueClearError)
    IN  [q2 EXCEPT !.pendingRequests = <<>>, !.waitOrder = <<>>]

\* clear (request-queue.ts:175-192)
clear(q) ==
    LET q1 == [CancelAll(q, q.activeRequests) EXCEPT !.activeRequests = {}]
        q2 == RejectAll(q1, q1.pendingRequests, QueueClearError)
    IN  [q2 EXCEPT !.pendingRequests = <<>>, !.waitOrder = <<>>]

\* getStatus (request-queue.ts:161-168)
getStatus(q) ==
    [active |-> Cardinality(q.activeRequests),
     pending |-> Len(q.pendingRequests),
     completed |-> q.completedCount,
     failed |-> q.failedCount]

\* the while loop of setMaxConcurrent (request-queue.ts:203-206)
RECURSIVE AdmitWhilePossible(_)
AdmitWhilePossible(q) ==
    IF Len(q.pendingRequests) > 0
       /\ Cardinality(q.activeRequests) < q.maxConcurrent
    THEN AdmitWhilePossible(processNext(q))
    ELSE q

\* setMaxConcurrent that only stores the new limit
setMaxConcurrent_noAdmit(q, n) ==
    [q EXCEPT !.maxConcurrent = n]

\* setMaxConcurrent (request-queue.ts:199-207)
setMaxConcurrent(q, n) ==
    AdmitWhilePossible([q EXCEPT !.maxConcurrent = n])

\* .then handler of executeRequest (request-queue.ts:77-82)
onFulfilled(q, i) ==
    Resolve([q EXCEPT !.completedCount = Increment(@),
                      !.call[i] = "finishing"], i)

\* .catch handler that counts the failure as a completion
onRejected_countsCompleted(q, i, e) ==
    Reject([q EXCEPT !.completedCount = Increment(@),
                     !.call[i] = "finishing"], i, e)

\* .catch handler of executeRequest (request-queue.ts:83-88)
onRejected(q, i, e) ==
    Reject([q EXCEPT !.failedCount = Increment(@),
                     !.call[i] = "finishing"], i, e)

\* .finally handler that removes the request and admits nobody
onFinally_noAdmit(q, i) ==
    [q EXCEPT !.activeRequests = @ \ {i},
              !.call[i] = "idle",
              !.cancelReq = @ \ {i}]

\* .finally handler of executeRequest (request-queue.ts:89-95)
onFinally(q, i) ==
    processNext([q EXCEPT !.activeRequests = @ \ {i},
                          !.call[i] = "idle",
                          !.cancelReq = @ \ {i}])

\* The errors a sendRequest call is seen to fail with by the queue.
SendErrors == {AIError("timeout", MSG.timeout, TRUE),
               AIError("auth", MSG.auth, FALSE)}

\* ------------------------------------------------------------ queue actions
\* A caller enqueues a request.  Request ids are unique among the requests
\* that are still unsettled or still running; an identity is free again when
\* its promise has settled and its sendRequest call has ended.
Enqueue(i, p) ==
    /\ Cur.promise[i] = "none"
    /\ call[i] = "idle"
    /\ Becomes(enqueue(Cur, i, p))

\* a caller cancels request i, whichever state it is in
Cancel(i) ==
    /\ i \in Ids
    /\ Becomes(cancel(Cur, i))

Clear ==
    /\ activeRequests \subseteq Ids
    /\ Becomes(clear(Cur))

SetMaxConcurrent(n) ==
    /\ n \in Limits
    /\ Becomes(setMaxConcurrent(Cur, n))

\* the sendRequest call of request i resolves; the .then handler runs
SendResolves(i) ==
    /\ call[i] = "running"
    /\ Becomes(onFulfilled(Cur, i))

\* the sendRequest call of request i rejects; the .catch handler runs
SendRejects(i, e) ==
    /\ call[i] = "running"
    /\ Becomes(onRejected(Cur, i, e))

\* the .finally handler runs, a microtask later than .then/.catch
Finally(i) ==
    /\ call[i] = "finishing"
    /\ Becomes(onFinally(Cur, i))

QInit ==
    /\ maxConcurrent \in Limits
    /\ activeRequests = {}
    /\ pendingRequests = <<>>
    /\ completedCount = 0
    /\ failedCount = 0
    /\ promise = [i \in Ids |-> "none"]
    /\ rejection = [i \in Ids |-> NoError]
    /\ settles = [i \in Ids |-> 0]
    /\ call = [i \in Ids |-> "idle"]
    /\ sendCalls = [i \in Ids |-> 0]
    /\ cancelReq = {}
    /\ waitOrder = <<>>
    /\ admitted = <<>>

\* the queue specifications leave the detailed client alone
Init ==
    /\ QInit
    /\ maxRetries = 0
    /\ request = [stream |-> FALSE, onStream |-> FALSE, cancelToken |-> FALSE]
    /\ ClientIdle
    /\ ClassifierIdle
    /\ ReaderIdle

NextFixed ==
    \/ \E i \in Ids, p \in Priorities : Enqueue(i, p)
    \/ \E i \in Ids : Cancel(i)
    \/ Clear
    \/ \E i \in Ids : SendResolves(i)
    \/ \E i \in Ids, e \in SendErrors : SendRejects(i, e)
    \/ \E i \in Ids : Finally(i)

Next ==
    \/ NextFixed
    \/ \E n \in Limits : SetMaxConcurrent(n)

Spec == Init /\ [][Next]_vars

\* the queue with maxConcurrent never changed after construction
SpecFixed == Init /\ [][NextFixed]_vars

\* Every sendRequest call eventually settles, and the handlers chained on it
\* run: the microtask queue is always drained.
Settle(i) == SendResolves(i) \/ \E e \in SendErrors : SendRejects(i, e)

\* The liveness specification starts from the idle states of a queue that
\* has been running for long: nothing active or waiting, both counters at
\* their limit (states that Spec reaches), so that behaviours can go on for
\* ever within finitely many states.
LiveInit ==
    /\ maxConcurrent \in Limits
    /\ activeRequests = {}
    /\ pendingRequests = <<>>
    /\ completedCount = MaxCount
    /\ failedCount = MaxCount
    /\ promise = [i \in Ids |-> "none"]
    /\ rejection = [i \in Ids |-> NoError]
    /\ settles = [i \in Ids |-> 0]
    /\ call = [i \in Ids |-> "idle"]
    /\ sendCalls = [i \in Ids |-> 0]
    /\ cancelReq = {}
    /\ waitOrder = <<>>
    /\ admitted = <<>>
    /\ maxRetries = 0
    /\ request = [stream |-> FALSE, onStream |-> FALSE, cancelToken |-> FALSE]
    /\ ClientIdle
    /\ ClassifierIdle
    /\ ReaderIdle

FairSpec ==
    /\ LiveInit
    /\ [][Next]_vars
    /\ \A i \in Ids : WF_vars(Settle(i)) /\ WF_vars(Finally(i))

\* one request through the client, the queue left alone
ClientSpecInit ==
    /\ ClientInit
    /\ ClassifierIdle
    /\ ReaderIdle
    /\ QInit
    /\ maxConcurrent = 1

ClientSpec == ClientSpecInit /\ [][ClientNext]_vars

\* A burst: maxConcurrent + 1 requests are enqueued into the empty queue
\* before any of them settles, then they settle one by one; nobody cancels,
\* clears or resizes (the scenario of request-queue.test.ts:71-96, with
\* failures allowed as well).
BurstSize == Cardinality(activeRequests) + Len(pendingRequests)

Settling ==
    \/ completedCount > 0
    \/ failedCount > 0
    \/ \E i \in Ids : call[i] = "finishing"

BurstEnqueue(i, p) ==
    /\ ~Settling
    /\ BurstSize < maxConcurrent + 1
    /\ Enqueue(i, p)

BurstResolves(i) ==
    /\ Settling \/ BurstSize = maxConcurrent + 1
    /\ SendResolves(i)

BurstRejects(i, e) ==
    /\ Settling \/ BurstSize = maxConcurrent + 1
    /\ SendRejects(i, e)

BurstFinally(i) ==
    /\ Finally(i)

BurstNext ==
    \/ \E i \in Ids, p \in Priorities : BurstEnqueue(i, p)
    \/ \E i \in Ids : BurstResolves(i)
    \/ \E i \in Ids, e \in SendErrors : BurstRejects(i, e)
    \/ \E i \in Ids : BurstFinally(i)

BurstSpec == Init /\ [][BurstNext]_vars

\* one cancel token and its callers, the client and the queue left alone
TokenNext ==
    \/ CallCancel
    \/ \E kind \in CallbackKinds : CallOnCancel(kind)

TokenSpecInit ==
    /\ Init
    /\ maxConcurrent = 1

TokenSpec == TokenSpecInit /\ [][TokenNext]_vars

\* ------------------------------------------------- the queue over the client
\* The queue with the client behind it: executeRequest of the queue calls
\* aiClient.sendRequest (request-queue.ts:76), and what the caller of enqueue
\* receives is what that call settles with.  One sendRequest call runs at a
\* time (maxConcurrent = 1, and no caller cancels or replaces a call that is
\* in flight); the requests do not stream, carry a cancel token and have
\* the same priority, and the client retries once.
IdleClient(c) ==
    [c EXCEPT !.cancelled = FALSE, !.callbacks = 0, !.pc = "idle",
              !.attempt = 0, !.lastError = <<>>, !.aborted = FALSE,
              !.clientActive = FALSE, !.timerArmed = FALSE, !.httpStatus = 0,
              !.fullContent = <<>>, !.response = NoResponse,
              !.error = NoError, !.fetchCalls = 0, !.delivered = <<>>,
              !.served = <<>>, !.allRetryable = TRUE, !.sleeps = <<>>,
              !.cancelPoint = "none", !.malformedAt = -1]

\* the sendRequest call of a request the queue has just admitted
sendRequestOf(q, c) ==
    IF q.admitted # <<>> THEN AIClient_executeRequest(IdleClient(c)) ELSE c

Both(q, c) ==
    /\ QueueBecomes(q)
    /\ ClientBecomes(c)
    /\ UNCHANGED tvars
    /\ UNCHANGED evars
    /\ UNCHANGED pvars
    /\ UNCHANGED svars
    /\ UNCHANGED uvars

CallInFlight == \E i \in Ids : call[i] # "idle"

PassEnqueue(i) ==
    /\ Cur.promise[i] = "none"
    /\ call[i] = "idle"
    /\ activeRequests = {} => ~CallInFlight
    /\ LET q == enqueue(Cur, i, 1)
       IN  Both(q, sendRequestOf(q, CCur))

\* cancel(id) of a request that waits, or of an id that names no request
PassCancel(i) ==
    /\ i \notin activeRequests
    /\ Both(cancel(Cur, i), CCur)

\* clear(): aiClient.cancelRequest for the active request, the waiting ones
\* rejected
PassClear ==
    /\ Both(clear(Cur),
            IF activeRequests # {} THEN AIClient_cancelRequest(CCur) ELSE CCur)

\* a step of the sendRequest call that is running
PassClientStep ==
    /\ \E i \in Ids : call[i] = "running"
    /\ ClientNext

\* sendRequest has resolved: the .then handler of the queue
PassResolves(i) ==
    /\ call[i] = "running"
    /\ pc = "resolved"
    /\ Both(onFulfilled(Cur, i), CCur)

\* sendRequest has rejected: the .catch handler of the queue passes the error on
PassRejects(i) ==
    /\ call[i] = "running"
    /\ pc = "rejected"
    /\ Both(onRejected(Cur, i, error), CCur)

\* the .finally handler; processNext may start the next sendRequest call
PassFinally(i) ==
    /\ call[i] = "finishing"
    /\ LET q == onFinally(Cur, i)
       IN  Both(q, sendRequestOf(q, IdleClient(CCur)))

PassInit ==
    /\ QInit
    /\ maxConcurrent = 1
    /\ maxRetries = 1
    /\ request = [stream |-> FALSE, onStream |-> FALSE, cancelToken |-> TRUE]
    /\ ClientIdle
    /\ ClassifierIdle
    /\ ReaderIdle

\* the requests of the scenario: one that runs and one that waits
PassIds == {1, 2}

PassNext ==
    \/ \E i \in PassIds : PassEnqueue(i)
    \/ \E i \in Ids : PassCancel(i)
    \/ PassClear
    \/ PassClientStep
    \/ \E i \in PassIds : PassResolves(i)
    \/ \E i \in PassIds : PassRejects(i)
    \/ \E i \in PassIds : PassFinally(i)

PassSpec == PassInit /\ [][PassNext]_vars

\* the same with a client that does not retry
SingleAttemptInit ==
    /\ QInit
    /\ maxConcurrent = 1
    /\ maxRetries = 0
    /\ request = [stream |-> FALSE, onStream |-> FALSE, cancelToken |-> TRUE]
    /\ ClientIdle
    /\ ClassifierIdle
    /\ ReaderIdle

SingleAttemptSpec == SingleAttemptInit /\ [][PassNext]_vars

\* testConnection calls, the queue and sendRequest left alone
ProbeNext ==
    \/ \E k \in Probes : TestConnection(k)
    \/ \E k \in Probes, status \in ProbeStatuses : ProbeFetchResolves(k, status)
    \/ \E k \in Probes : ProbeFetchFails(k)
    \/ \E k \in Probes : ProbeTimerFires(k)
    \/ \E k \in Probes : ProbeAbortObserved(k)

ProbeInit ==
    /\ Init
    /\ maxConcurrent = 1

ProbeSpec == ProbeInit /\ [][ProbeNext]_vars

\* one error through the two classifiers
ClassifyInit ==
    /\ QInit
    /\ maxConcurrent = 1
    /\ maxRetries = 0
    /\ request = [stream |-> FALSE, onStream |-> FALSE, cancelToken |-> FALSE]
    /\ ClientIdle
    /\ ReaderIdle
    /\ errorInput \in ErrorInputs
    /\ classified = NoError
    /\ retryDecision = "none"

ClassifyNext ==
    \/ Classify

ClassifySpec == ClassifyInit /\ [][ClassifyNext]_vars

\* one streamed body through the read loop, cut into chunks in every way
StreamInit ==
    /\ QInit
    /\ maxConcurrent = 1
    /\ maxRetries = 0
    /\ request = [stream |-> TRUE, onStream |-> TRUE, cancelToken |-> FALSE]
    /\ ClientIdle
    /\ ClassifierIdle
    /\ \E n \in 1..MaxStreamLines :
          \E lines \in [1..n -> SseTexts] :
              reader = [NoReader EXCEPT !.lines = lines, !.pc = "reading"]

\* a read returns one character or more, up to a whole body
ReadSizes == 1..(MaxStreamLines * (Len(DataPrefix) + 4))

StreamNext ==
    \/ \E n \in ReadSizes : Read(n)
    \/ ReadDone

StreamSpec == StreamInit /\ [][StreamNext]_vars

\* prompts submitted from the editor, the client behind them left alone
EditorNext ==
    \/ \E id \in PromptIds : SubmitPrompt(id)
    \/ \E id \in PromptIds : OnStream(id)
    \/ \E id \in PromptIds : PromptResolves(id)
    \/ \E id \in PromptIds : PromptRejects(id)
    \/ ChangeSetting
    \/ Unload

EditorInit ==
    /\ Init
    /\ maxConcurrent = 1

EditorSpec == EditorInit /\ [][EditorNext]_vars

\* ------------------------------------------------------- queue observations
Unsettled == {i \in Ids : call[i] = "running"}

WaitingIds == {pendingRequests[k].id : k \in 1..Len(pendingRequests)}

PriorityOf(i) == pendingRequests[FindIndex(pendingRequests, i)].priority

IndexIn(s, x) == CHOOSE k \in 1..Len(s) : s[k] = x

ArrivedBefore(i, j) == IndexIn(waitOrder, i) < IndexIn(waitOrder, j)

\* j is ahead of i: strictly higher priority, or the same and enqueued earlier
Ahead(j, i) ==
    \/ PriorityOf(j) > PriorityOf(i)
    \/ PriorityOf(j) = PriorityOf(i) /\ ArrivedBefore(j, i)

Range(s) == {s[k] : k \in 1..Len(s)}

TypeOK ==
    /\ maxConcurrent \in Limits
    /\ activeRequests \subseteq Ids
    /\ completedCount \in 0..MaxCount
    /\ failedCount \in 0..MaxCount


\* ------------------------------------------------------------------ claims
\* C1: with maxConcurrent fixed and distinct request ids, the number of
\* sendRequest calls started by the queue and not yet settled never exceeds
\* maxConcurrent.
C1_ConcurrencyBound == Cardinality(Unsettled) <= maxConcurrent

\* C2 (as stated): every enqueued request has its promise settled exactly
\* once, and a pending promise is eventually settled whatever calls occur.
C2_ExactlyOnce ==
    \A i \in Ids :
        /\ settles[i] <= 1
        /\ promise[i] = "pending" => settles[i] = 0
        /\ promise[i] \in {"resolved", "rejected"} => settles[i] = 1
        /\ promise[i] = "rejected" <=> rejection[i] # NoError

C2_Original ==
    /\ []C2_ExactlyOnce
    /\ \A i \in Ids : (promise[i] = "pending") ~> (promise[i] # "pending")

\* request i waits behind a request of strictly higher priority that was
\* enqueued after it
Overtaken(i) ==
    /\ i \in WaitingIds
    /\ \E j \in WaitingIds :
          PriorityOf(j) > PriorityOf(i) /\ ArrivedBefore(i, j)

\* C2 (amended): every enqueued request has its promise settled exactly once,
\* and a pending promise is eventually settled unless the request keeps being
\* overtaken in the waiting list by requests of strictly higher priority
\* enqueued after it.
C2_SettledOnceEventually ==
    /\ []C2_ExactlyOnce
    /\ \A i \in Ids :
          (promise[i] = "pending") ~> (promise[i] # "pending" \/ Overtaken(i))

\* a request that had to wait was admitted and has been resolved by its
\* sendRequest call while another request is still waiting
C2_Witness ==
    /\ pendingRequests # <<>>
    /\ \E i \in Ids : promise[i] = "resolved" /\ call[i] = "finishing"

\* C10: requests leave the waiting list in priority order, ties in order of
\* arrival: when an operation admits waiting requests, each one admitted had
\* nobody ahead of it among the requests that were waiting at that moment.
C10_Step ==
    \A k \in 1..Len(admitted') :
        /\ admitted'[k] \in WaitingIds
        /\ \A j \in WaitingIds \ {admitted'[m] : m \in 1..k} :
              ~Ahead(j, admitted'[k])

C10_PriorityOrder == [][C10_Step]_vars

\* the last operation admitted one waiting request and left another waiting
C10_Witness ==
    /\ Len(admitted) = 1
    /\ Len(pendingRequests) >= 1
    /\ call[admitted[1]] = "running"

\* ------------------------------------------------------------ queue claims
\* C11: with maxConcurrent = K and the queue empty, K + 1 enqueues leave
\* exactly K requests active, each with its sendRequest call started, and 1
\* waiting; every step in which an active request leaves the queue admits
\* exactly one waiting request, none when nobody waits; and when every
\* request has succeeded the completed counter is K + 1 (the counter is
\* exact up to MaxCount).
C11_Step ==
    /\ (~Settling' /\ BurstSize' = maxConcurrent' + 1)
        => /\ Cardinality(activeRequests') = maxConcurrent'
           /\ Len(pendingRequests') = 1
           /\ \A i \in activeRequests' : call'[i] = "running"
           /\ call'[pendingRequests'[1].id] = "idle"
    /\ \A i \in activeRequests :
          (call[i] = "finishing" /\ call'[i] = "idle")
            => /\ Len(admitted') = IF pendingRequests # <<>> THEN 1 ELSE 0
               /\ Len(pendingRequests') = Len(pendingRequests) - Len(admitted')
               /\ Cardinality(activeRequests') =
                      Cardinality(activeRequests) - 1 + Len(admitted')
    /\ (\A i \in Ids : ~(call[i] = "finishing" /\ call'[i] = "idle"))
        => admitted' = <<>>
    /\ (/\ Settling' /\ BurstSize' = 0
        /\ \A i \in Ids : call'[i] = "idle"
        /\ failedCount' = 0
        /\ maxConcurrent' + 1 <= MaxCount)
        => completedCount' = maxConcurrent' + 1

C11_BurstAdmission == [][C11_Step]_vars

\* the burst has been served: everything succeeded, nothing is left
C11_Witness ==
    /\ BurstSize = 0
    /\ \A i \in Ids : call[i] = "idle"
    /\ failedCount = 0
    /\ completedCount = maxConcurrent + 1

\* C12 as stated: cancel(id) of a waiting request removes it from the
\* waiting list, rejects its promise with an error of kind `cancelled`, and
\* sendRequest is never called for it.
C12_OriginalStep ==
    \A i \in WaitingIds :
        Cancel(i)
          => /\ i \notin WaitingIds'
             /\ promise'[i] = "rejected"
             /\ rejection'[i].type = "cancelled"
             /\ sendCalls'[i] = 0
             /\ call'[i] = "idle"
             /\ i \notin activeRequests'

C12_Step ==
    \A i \in WaitingIds :
        Cancel(i)
          => /\ i \notin WaitingIds'
             /\ Len(pendingRequests') = Len(pendingRequests) - 1
             /\ promise'[i] = "rejected"
             /\ settles'[i] = 1
             /\ rejection'[i] = AIError("unknown", MSG.cancelled, FALSE)
             /\ sendCalls'[i] = 0
             /\ call'[i] = "idle"
             /\ i \notin activeRequests'

C13_OriginalStep ==
    Clear
      => /\ \A i \in WaitingIds :
              promise'[i] = "rejected" /\ rejection'[i].type = "cancelled"
         /\ activeRequests \subseteq cancelReq'
         /\ getStatus(Cur').active = 0
         /\ getStatus(Cur').pending = 0

C13_Step ==
    Clear
      => /\ \A i \in WaitingIds :
              /\ promise'[i] = "rejected"
              /\ rejection'[i] = AIError("unknown", MSG.cleared, FALSE)
              /\ sendCalls'[i] = 0
         /\ activeRequests \subseteq cancelReq'
         /\ getStatus(Cur').active = 0
         /\ getStatus(Cur').pending = 0

Min(a, b) == IF a <= b THEN a ELSE b

C19_Step ==
    \A n \in Limits :
        SetMaxConcurrent(n)
          => LET active == Cardinality(activeRequests)
                 room == IF n > active THEN n - active ELSE 0
                 k == Min(Len(pendingRequests), room)
             IN  /\ maxConcurrent' = n
                 /\ ~(pendingRequests' # <<>>
                        /\ Cardinality(activeRequests') < n)
                 /\ Len(admitted') = k
                 /\ activeRequests' = activeRequests \cup Range(admitted')
                 /\ Range(admitted') \subseteq WaitingIds
                 /\ pendingRequests' =
                        SelectSeq(pendingRequests,
                                  LAMBDA qr : qr.id \notin Range(admitted'))
                 /\ \A a, b \in 1..k :
                        a < b => Ahead(admitted'[a], admitted'[b])
                 /\ \A a \in 1..k :
                        \A i \in WaitingIds \ Range(admitted') :
                            Ahead(admitted'[a], i)
                 /\ \A a \in 1..k : call'[admitted'[a]] = "running"

C19_SetMaxConcurrent == [][C19_Step]_vars

\* setMaxConcurrent(2) has just admitted a waiting request next to the
\* active one: nothing has settled or been cancelled, so no other operation
\* has admitted it
C19_Witness ==
    /\ admitted # <<>>
    /\ maxConcurrent = 2
    /\ Cardinality(activeRequests) = 2
    /\ completedCount = 0
    /\ failedCount = 0
    /\ cancelReq = {}
    /\ \A i \in Ids : call[i] # "finishing"

\* C20: the completed and failed counters of getStatus() start at 0 and
\* never decrease; completed grows by exactly 1 when the sendRequest of an
\* admitted request succeeds and failed by exactly 1 when it fails (below
\* the largest number the counter can hold); enqueue, cancel, clear and
\* setMaxConcurrent change neither.
C20_Step ==
    LET before == getStatus(Cur)
        after == getStatus(Cur')
    IN  /\ after.completed >= before.completed
        /\ after.failed >= before.failed
        /\ \A i \in Ids :
              SendResolves(i)
                => /\ before.completed < MaxCount
                        => after.completed = before.completed + 1
                   /\ after.failed = before.failed
        /\ \A i \in Ids :
              (\E e \in SendErrors : SendRejects(i, e))
                => /\ before.failed < MaxCount
                        => after.failed = before.failed + 1
                   /\ after.completed = before.completed
        /\ (\/ \E i \in Ids, p \in Priorities : Enqueue(i, p)
            \/ \E i \in Ids : Cancel(i)
            \/ Clear
            \/ \E n \in Limits : SetMaxConcurrent(n)
            \/ \E i \in Ids : Finally(i))
              => /\ after.completed = before.completed
                 /\ after.failed = before.failed

C20_Counters ==
    /\ getStatus(Cur).completed = 0
    /\ getStatus(Cur).failed = 0
    /\ [][C20_Step]_vars

\* one request has succeeded and another has just failed
C20_Witness ==
    /\ completedCount = 1
    /\ failedCount = 1
    /\ \E i \in Ids : call[i] = "finishing" /\ promise[i] = "rejected"

\* ------------------------------------------------------------ token claims
\* number of times callback id was invoked
Invocations(log, id) == Cardinality({k \in 1..Len(log) : log[k] = id})

IsPrefix(s, t) == Len(s) <= Len(t) /\ SubSeq(t, 1, Len(s)) = s

CallbackIds(cbs) == [k \in 1..Len(cbs) |-> cbs[k].id]

\* C14: the cancelled flag starts false and only ever goes from false to
\* true; a cancel() on a cancelled token changes nothing and invokes
\* nothing; and once cancel() has been called, every callback registered
\* before it has been invoked exactly once.
C14_Step ==
    /\ token.cancelled => token'.cancelled
    /\ (tokenLog'.last.op = "cancel" /\ token.cancelled)
        => token' = token /\ tokenLog'.last.ran = <<>>
    /\ token'.cancelled
        => \A k \in 1..Len(token'.callbacks) :
              Invocations(tokenLog'.invoked, token'.callbacks[k].id) = 1

C14_Latch == [][C14_Step]_vars

\* C15: onCancel(cb) on a cancelled token runs cb during the call, exactly
\* once, and stores nothing; on a token not yet cancelled it does not run cb
\* and stores it behind the callbacks registered earlier; and the callbacks
\* that cancel() runs are stored callbacks taken in registration order.
C15_Step ==
    /\ (tokenLog'.last.op = "onCancel" /\ token.cancelled)
        => /\ tokenLog'.last.ran = <<tokenLog'.last.cb>>
           /\ token'.callbacks = token.callbacks
    /\ (tokenLog'.last.op = "onCancel" /\ ~token.cancelled
            /\ tokenLog'.registered # tokenLog.registered)
        => /\ tokenLog'.last.ran = <<>>
           /\ CallbackIds(token'.callbacks) =
                  Append(CallbackIds(token.callbacks), tokenLog'.last.cb)
           /\ ~token'.cancelled
    /\ (tokenLog'.last.op = "cancel" /\ ~token.cancelled)
        => /\ IsPrefix(tokenLog'.last.ran, CallbackIds(token.callbacks))
           /\ tokenLog'.last.ran # <<>> \/ token.callbacks = <<>>

C15_OnCancelTiming == [][C15_Step]_vars

\* two stored callbacks ran at cancel(), in order, and a third one,
\* registered afterwards, ran during its registration
C15_Witness ==
    /\ token.cancelled
    /\ Len(token.callbacks) = 2
    /\ tokenLog.invoked = <<1, 2, 3>>
    /\ tokenLog.last.op = "onCancel"
    /\ tokenLog.last.ran = <<3>>

\* ------------------------------------------------------- classifier claims
\* The precedence that C16 states, on the lower-cased message: the first
\* rule that matches, `cancel` first.
EmbeddedStatus(message) ==
    \E status \in 400..599 : includes(message, NumberToString(status))

ClaimedRule(errorMessage) ==
    LET message == toLowerCase(errorMessage)
    IN  IF includes(message, PAT.cancel) THEN "cancel"
        ELSE IF includes(message, PAT.network) \/ includes(message, PAT.fetch)
        THEN "network"
        ELSE IF includes(message, PAT.timeout) THEN "timeout"
        ELSE IF \/ includes(message, PAT.s401) \/ includes(message, PAT.s403)
                \/ includes(message, PAT.unauthorized)
                \/ includes(message, PAT.forbidden)
        THEN "auth"
        ELSE IF includes(message, PAT.s429) \/ includes(message, PAT.rate_limit)
        THEN "rate_limit"
        ELSE IF EmbeddedStatus(message) \/ includes(message, PAT.api_error)
        THEN "api"
        ELSE "unknown"

\* the error of the client that stands for each rule; a cancellation is the
\* `unknown` error with the message of a cancelled request
RuleKind(rule) ==
    CASE rule = "cancel" -> <<"unknown", MSG.cancelled>>
      [] rule = "network" -> <<"network", MSG.network>>
      [] rule = "timeout" -> <<"timeout", MSG.timeout>>
      [] rule = "auth" -> <<"auth", MSG.auth>>
      [] rule = "rate_limit" -> <<"rate_limit", MSG.rate_limit>>
      [] rule = "api" -> <<"api", MSG.api>>
      [] rule = "unknown" -> <<"unknown", MSG.unknown>>

\* C16: the classifier returns the kind of the first rule that matches in
\* the order cancel, network/fetch, timeout, auth, rate limit, api, unknown.
C16_Precedence ==
    classified # NoError
        => <<classified.type, classified.message>> =
               RuleKind(ClaimedRule(MessageOf(errorInput)))

\* C17: retryable is determined by the kind: true for network, timeout and
\* rate-limit errors and for api errors of a 5xx status, false for api
\* errors of another status and for auth, invalid-request, cancelled and
\* unknown errors, those of the queue included.
ClaimedRetryable(e, status) ==
    CASE e.type \in {"network", "timeout", "rate_limit"} -> TRUE
      [] e.type = "api" -> status \in 500..599
      [] OTHER -> FALSE

C17_RetryableByKind ==
    /\ classified # NoError
        => classified.retryable = ClaimedRetryable(classified, errorInput.status)
    /\ ~QueueCancelError.retryable
    /\ ~QueueClearError.retryable

\* C29: the retry decision agrees with the classified error: a failure is
\* one that sendRequest retries exactly when its classified error has
\* retryable = true.
C29_DecisionAgrees ==
    classified # NoError
        => (retryDecision = "retry" <=> classified.retryable)

\* C30: an api error has retryable = true exactly when the status embedded
\* in its message is in 500..599.
C30_ApiRetryable ==
    (classified # NoError /\ classified.type = "api")
        => (classified.retryable <=> errorInput.status \in 500..599)

\* ------------------------------------------------------- rejection claims
\* the messages of the classified errors (ai-client.ts:412-484,
\* request-queue.ts:143 and 185)
UserMessages == {MSG.network, MSG.timeout, MSG.auth, MSG.rate_limit,
                 MSG.cancelled, MSG.api, MSG.unknown, MSG.cleared}

IsClassified(e) ==
    /\ DOMAIN e = {"type", "message", "retryable"}
    /\ e.type \in AIErrorType
    /\ e.message \in UserMessages
    /\ e.retryable \in BOOLEAN

\* C18: every rejection that reaches a caller of sendRequest or of enqueue is
\* a classified error (a type of the taxonomy, a user message, a retryable
\* flag), never the raw exception, on every failure path.
C18_ClassifiedRejections ==
    /\ pc = "rejected" => IsClassified(error)
    /\ \A i \in Ids : promise[i] = "rejected" => IsClassified(rejection[i])

\* the retries are exhausted on a timeout and the caller of enqueue has
\* received the error of the client
C18_Witness ==
    \E i \in Ids :
        /\ promise[i] = "rejected"
        /\ call[i] = "finishing"
        /\ rejection[i] = error
        /\ sleeps # <<>>
        /\ error = AIError("timeout", MSG.timeout, TRUE)

\* ----------------------------------------------------------- client claims
\* the points of a call at which C4 speaks of a cancellation: before
\* sendRequest is called, or while an attempt is in flight
CancelledInTime == {"idle", "fetch", "errbody", "json", "stream"}

IsSuffix(s, t) ==
    /\ Len(s) <= Len(t)
    /\ SubSeq(t, Len(t) - Len(s) + 1, Len(t)) = s

\* C3: when every attempt of a call fails with a failure that classifies as
\* retryable and the token is never cancelled, sendRequest fails after
\* exactly maxRetries + 1 attempts, with the classification of the last
\* failure.
C3_RetryBudget ==
    (pc = "rejected" /\ allRetryable /\ ~cancelled)
        => /\ fetchCalls = maxRetries + 1
           /\ error = convertToAIError(lastError)

C5_NoRetry ==
    ~allRetryable
        => /\ pc = "rejected"
           /\ error = convertToAIError(lastError)
           /\ sleeps = <<>> => fetchCalls = 1

\* C6: when an attempt succeeds, after earlier attempts failed and were
\* retried, sendRequest resolves with the response of that attempt, the
\* transport has been called once per failed attempt plus once, and no
\* attempt follows.
C6_Step ==
    /\ pc' = "resolved"
        => /\ response'.content = served'
           /\ fetchCalls' = attempt' + 1
    /\ pc = "resolved"
        => /\ pc' = "resolved"
           /\ response' = response
           /\ fetchCalls' = fetchCalls

C6_ResolvesWithLastAttempt == [][C6_Step]_vars

C6_Witness ==
    /\ pc = "resolved"
    /\ maxRetries = 2
    /\ fetchCalls = 2
    /\ lastError = ApiErrorMessage(429, <<>>)
    /\ response.content = <<"a">>

\* C7: when a streamed call with an onStream callback resolves, the
\* fragments passed to onStream over all its attempts, concatenated in
\* delivery order, are the content of the returned response.
C7_StreamedEqualsContent ==
    (pc = "resolved" /\ request.stream /\ request.onStream)
        => delivered = response.content

\* C8: a data line that is not valid JSON does not fail the streamed
\* attempt; it is skipped, the valid lines after it still reach onStream and
\* the content, and neither holds a fragment of the malformed line.
C8_Step ==
    /\ (malformedAt' >= 0 /\ malformedAt' # malformedAt)
        => /\ pc' = "stream"
           /\ error' = NoError
    /\ (malformedAt' >= 0 /\ pc' \in {"stream", "resolved"})
        => /\ fullContent' = served'
           /\ IsSuffix(fullContent', delivered')
           /\ "x" \notin Range(fullContent') \cup Range(delivered')

C8_MalformedSkipped == [][C8_Step]_vars

C8_Witness ==
    /\ pc = "resolved"
    /\ malformedAt >= 0
    /\ Len(response.content) > malformedAt
    /\ Len(delivered) > malformedAt

\* C9: once sendRequest has settled, with a response or with an error,
\* onStream is not called again for the request.
C9_NoDeliveryAfterSettle ==
    [][Settled(CCur) => delivered' = delivered]_vars

C9_Witness ==
    /\ pc = "rejected"
    /\ delivered # <<>>
    /\ cancelPoint = "none"

\* C28: the map of the client holds the controller of the request only
\* while an attempt is in flight: it is set when an attempt starts, removed
\* on every exit of the attempt and by cancelRequest, and so absent during
\* a backoff delay and after sendRequest has settled.
C28_Step ==
    /\ clientActive' => InFlight(CCur')
    /\ (pc \in {"idle", "sleep"} /\ pc' = "fetch") => clientActive'
    /\ CancelRequest => ~clientActive'

C28_HandleTable ==
    /\ clientActive => InFlight(CCur)
    /\ [][C28_Step]_vars

\* the first attempt has failed and the call waits out its backoff delay
C28_Witness ==
    /\ pc = "sleep"
    /\ fetchCalls = 1
    /\ ~clientActive

\* C27: an attempt in flight has one timeout timer and one cancellation
\* hook, and both are retired when it settles: no timer is armed outside an
\* attempt, and the token holds no hook of the request outside an attempt
\* and one at most during an attempt.
C27_TimerAndHookRetired ==
    /\ timerArmed => InFlight(CCur)
    /\ (pc = "fetch" /\ ~aborted) => timerArmed
    /\ (request.cancelToken /\ ~cancelled)
          => callbacks = IF InFlight(CCur) THEN 1 ELSE 0

\* C23: no retry across a cancellation: when the attempt that
\* cancelRequest(id) aborted fails, sendRequest fails with it and starts no
\* further attempt, whatever budget remains, token or not.  cancelRequest is
\* the only operation that removes the controller from the map while the
\* attempt is in flight.
C23_Step ==
    (InFlight(CCur) /\ ~clientActive /\ AbortObserved)
        => /\ pc' = "rejected"
           /\ fetchCalls' = fetchCalls

C23_NoRetryAfterCancelRequest == [][C23_Step]_vars

\* C24: once the token of the request has been cancelled, sendRequest does
\* not call the transport again, also when the token is cancelled during
\* the backoff delay between two attempts.
C24_Step ==
    (cancelled /\ fetchCalls >= 1) => fetchCalls' = fetchCalls

C24_NoAttemptAfterTokenCancel == [][C24_Step]_vars

\* C25: an aborted attempt is reported as a timeout only if its timer fired,
\* and an attempt aborted by a cancellation (token or cancelRequest) is
\* reported as cancelled.  The timer of an attempt that awaits fetch is
\* armed until it fires.
C25_Step ==
    AbortObserved
        => LET timerFired == pc = "fetch" /\ ~timerArmed
           IN  /\ lastError' = STR.request_timeout => timerFired
               /\ ~timerFired => lastError' = STR.request_cancelled

C25_TimeoutOnlyIfTimerFired == [][C25_Step]_vars

\* C26: the timeout covers the whole attempt: as long as the attempt is in
\* flight and not aborted, reading a body included, its timer is armed.
C26_TimeoutCoversAttempt ==
    (InFlight(CCur) /\ ~aborted) => timerArmed

\* C22: cancelling an id that names no request is a no-op:
\* client.cancelRequest(id) with no controller registered, and
\* queue.cancel(id) with id neither active nor waiting, leave the map of the
\* client, the active set, the waiting list and the counters as they are
\* and settle no promise.
C22_Step ==
    /\ (CancelRequest /\ ~clientActive)
          => /\ CCur' = CCur
             /\ UNCHANGED qvars
    /\ \A i \in Ids :
          (Cancel(i) /\ i \notin activeRequests /\ i \notin WaitingIds)
              => /\ activeRequests' = activeRequests
                 /\ pendingRequests' = pendingRequests
                 /\ completedCount' = completedCount
                 /\ failedCount' = failedCount
                 /\ cancelReq' = cancelReq
                 /\ call' = call
                 /\ \A j \in Ids : /\ promise'[j] = Cur.promise[j]
                                   /\ settles'[j] = Cur.settles[j]
                 /\ CCur' = CCur

C22_CancelUnknownIsNoOp == [][C22_Step]_vars

\* the state in which both calls are no-ops, and which they leave as it is:
\* a request is active in the queue, its sendRequest call has just failed
\* and so has no controller registered, another request waits, and id 3
\* names no request
C22_Witness ==
    /\ pc = "rejected"
    /\ ~clientActive
    /\ activeRequests # {}
    /\ pendingRequests # <<>>
    /\ 3 \notin activeRequests \cup WaitingIds
    /\ promise[3] = "none"

\* C21: testConnection never throws; it returns true exactly when the probe
\* got a response whose status indicates success, and false for any other
\* status and for every exception (failed connection, abort by the timer).
C21_TestConnection ==
    \A k \in Probes :
        probe[k].pc = "done"
            => /\ ~probe[k].threw
               /\ probe[k].result \in {"true", "false"}
               /\ probe[k].result = "true"
                    <=> probe[k].status \in 200..299

\* one call has returned true for a 204, the other false after its timer
\* aborted the fetch
C21_Witness ==
    \E j, k \in Probes :
        /\ probe[j].pc = "done" /\ probe[j].status = 204
        /\ probe[j].result = "true"
        /\ probe[k].pc = "done" /\ probe[k].aborted /\ probe[k].status = 0
        /\ probe[k].result = "false"

\* ------------------------------------------------------ token claims, II
\* C39: no operation of the token raises to its caller, and a cancel() on a
\* token not yet cancelled invokes every callback registered on it, each
\* exactly once, also when one of those callbacks raises.
C39_Step ==
    /\ ~tokenLog'.last.threw
    /\ (tokenLog'.last.op = "cancel" /\ ~token.cancelled)
        => \A k \in 1..Len(token.callbacks) :
              Invocations(tokenLog'.last.ran, token.callbacks[k].id) = 1

C39_NoOperationThrows == [][C39_Step]_vars

\* ------------------------------------------------------ queue claims, II
\* what cancel(i) of an active request i does when `admits` says whether the
\* head of the waiting list is admitted in the same step
C35_CancelActive(i, admits) ==
    /\ i \in cancelReq'
    /\ i \notin activeRequests'
    /\ IF admits
       THEN LET head == Head(pendingRequests).id
            IN  /\ admitted' = <<head>>
                /\ activeRequests' = (activeRequests \ {i}) \cup {head}
                /\ pendingRequests' = Tail(pendingRequests)
                /\ call'[head] = "running"
                /\ sendCalls'[head] = 1
                /\ \A j \in WaitingIds \ {head} : ~Ahead(j, head)
       ELSE /\ admitted' = <<>>
            /\ activeRequests' = activeRequests \ {i}
            /\ pendingRequests' = pendingRequests

\* C35 as stated: cancel(id) of an active request calls cancelRequest(id),
\* removes id from the active set and, whenever a request is waiting, admits
\* the highest-priority waiting request in the same step.
C35_OriginalStep ==
    \A i \in activeRequests :
        Cancel(i) => C35_CancelActive(i, pendingRequests # <<>>)

C35_Original == [][C35_OriginalStep]_vars

\* C35 as amended: cancel(id) of an active request calls cancelRequest(id),
\* removes id from the active set and, when a request is waiting and the
\* removal leaves fewer than maxConcurrent requests active, admits the
\* highest-priority waiting request in the same step; otherwise it admits
\* nobody.  Every cancel of an active request does so, not only the first.
C35_Step ==
    \A i \in activeRequests :
        Cancel(i)
          => C35_CancelActive(i, /\ pendingRequests # <<>>
                                 /\ Cardinality(activeRequests \ {i})
                                        < maxConcurrent)

C35_CancelAdmitsNext == [][C35_Step]_vars

\* two active requests have been cancelled one after the other and each
\* cancel admitted the request waiting behind it: nothing has settled, and
\* the last one admitted is the only active request
C35_Witness ==
    /\ maxConcurrent = 1
    /\ Cardinality(cancelReq) = 2
    /\ Len(admitted) = 1
    /\ activeRequests = {admitted[1]}
    /\ admitted[1] \notin cancelReq
    /\ waitOrder = <<>>
    /\ \A i \in cancelReq : call[i] = "running" /\ promise[i] = "pending"
    /\ completedCount = 0
    /\ failedCount = 0

\* C36: the queue never retries.  sendRequest is called at most once for an
\* enqueued request: once when it is admitted, never while it waits and
\* never for a request cancelled or cleared while waiting; no other step
\* calls it; and when the call fails the promise of the request is rejected
\* with the very error of the call, with no new call.
C36_Calls ==
    \A i \in Ids :
        /\ sendCalls[i] <= 1
        /\ call[i] # "idle" => sendCalls[i] = 1
        /\ i \in WaitingIds => sendCalls[i] = 0
        /\ rejection[i] \in {QueueCancelError, QueueClearError}
              => sendCalls[i] = 0

C36_Step ==
    /\ C36_Calls'
    /\ \A i \in Ids :
          /\ sendCalls'[i] > Cur.sendCalls[i]
                => call[i] = "idle" /\ call'[i] = "running"
          /\ \A e \in SendErrors :
                SendRejects(i, e)
                  => /\ promise'[i] = "rejected"
                     /\ rejection'[i] = e
                     /\ settles'[i] = 1
                     /\ sendCalls'[i] = 1
                     /\ call'[i] = "finishing"

C36_NoRetry == C36_Calls /\ [][C36_Step]_vars

\* a request that had been admitted was rejected by its one sendRequest call
\* while another request is waiting
C36_Witness ==
    \E i \in Ids :
        /\ promise[i] = "rejected"
        /\ rejection[i] \in SendErrors
        /\ sendCalls[i] = 1
        /\ call[i] = "finishing"
        /\ pendingRequests # <<>>

\* C37: the queue is work-conserving.  After every operation and every
\* completion handler, a request waits only if the number of active
\* requests is at least maxConcurrent (whether the limit stays as it is, is
\* raised or is lowered).
C37_WorkConserving ==
    pendingRequests # <<>> => Cardinality(activeRequests) >= maxConcurrent

\* a request waits behind a full set of active requests after an active
\* request has left and the waiting request behind it was admitted
C37_Witness ==
    /\ pendingRequests # <<>>
    /\ Cardinality(activeRequests) = maxConcurrent
    /\ admitted # <<>>

\* C38: getStatus().active is the number of admitted requests whose
\* sendRequest call has not yet been settled and handled; a request that
\* cancel(id) or clear() removed from the active set is not resolved,
\* rejected or counted afterwards.
C38_Step ==
    /\ getStatus(Cur').active = Cardinality({i \in Ids : call'[i] # "idle"})
    /\ \A i \in Ids \ activeRequests :
          /\ promise[i] = "pending" => promise'[i] \notin {"resolved"}
          /\ ~SendResolves(i)
          /\ \A e \in SendErrors : ~SendRejects(i, e)

C38_ActiveIsUnsettled == [][C38_Step]_vars

\* ----------------------------------------------------- client claims, II
\* C31: the k-th wait of a sendRequest call lasts 2^(k-1) seconds (1 s, 2 s,
\* 4 s, ...), the waits are made one per failed attempt that is retried, and
\* a call that fails makes no wait before it fails: not after the last
\* attempt permitted and not after a failure that is not retryable or that
\* finds the token cancelled.  A failed attempt that is retryable, with the
\* token not cancelled and attempts left, is followed by a wait.
C31_Schedule ==
    \A k \in 1..Len(sleeps) : sleeps[k] = (2 ^ (k - 1)) * 1000

C31_Step ==
    /\ C31_Schedule'
    /\ sleeps' # sleeps
          => /\ InFlight(CCur)
             /\ pc' = "sleep"
             /\ attempt' = attempt + 1
             /\ attempt' <= maxRetries
             /\ sleeps' = Append(sleeps, (2 ^ (attempt' - 1)) * 1000)
             /\ Len(sleeps') = attempt'
    /\ (pc # "sleep" /\ pc' = "sleep") => Len(sleeps') = Len(sleeps) + 1
    /\ (pc # "rejected" /\ pc' = "rejected")
          => /\ sleeps' = sleeps
             /\ \/ ~isRetryableError(lastError')
                \/ request.cancelToken /\ cancelled
                \/ attempt' > maxRetries

C31_Backoff == C31_Schedule /\ [][C31_Step]_vars

\* a call with two retries has failed three times: it waited 1 s and 2 s and
\* did not wait after the third failure
C31_Witness ==
    /\ pc = "rejected"
    /\ maxRetries = 2
    /\ attempt = 3
    /\ fetchCalls = 3
    /\ sleeps = <<1000, 2000>>

\* ------------------------------------------------------------ stream claims
\* the read loop applied to the whole body as one chunk
WholeBody(lines) ==
    handleStreamResponse([NoReader EXCEPT !.lines = lines], Flatten(lines))

\* C32: for a body of newline-terminated `data:` lines, however the reads
\* cut it into chunks, once the body has been read the onStream calls made
\* and the content accumulated are those of reading the body as one chunk.
C32_ChunkingIndependent ==
    (/\ reader.pc = "done"
     /\ \A k \in 1..Len(reader.lines) :
            startsWith(reader.lines[k], DataPrefix))
        => /\ reader.calls = WholeBody(reader.lines).calls
           /\ reader.fullContent = WholeBody(reader.lines).fullContent

\* the onStream call that a line of the body stands for, if any: the content
\* of its delta when it carries the prefix, is a whole document and the
\* content is not empty
FragmentOf(text) ==
    LET line == SubSeq(text, 1, Len(text) - 1)
        data == slice(line, Len(DataPrefix))
    IN  IF /\ startsWith(line, DataPrefix)
           /\ data # DoneMark
           /\ JSON_parses(data)
           /\ deltaOf(data) # <<>>
        THEN <<deltaOf(data)>>
        ELSE <<>>

RECURSIVE ExpectedCalls(_)
ExpectedCalls(lines) ==
    IF lines = <<>> THEN <<>>
    ELSE FragmentOf(Head(lines)) \o ExpectedCalls(Tail(lines))

\* C34: within one streamed attempt the onStream calls are the non-empty
\* delta contents of the valid data lines of the body, in the order of the
\* lines: at any moment a prefix of them, and all of them once the body has
\* been read; [DONE], blank lines, lines without the prefix and documents
\* without content give no call.
C34_CallsAreTheFragments ==
    /\ IsPrefix(reader.calls, ExpectedCalls(reader.lines))
    /\ reader.pc = "done" => reader.calls = ExpectedCalls(reader.lines)

\* C33: the body sent carries stream: true exactly when request.stream is
\* true, and the successful response of a request with request.stream true
\* is read as an SSE stream, with or without an onStream callback.
C33_Step ==
    /\ buildRequestBody(request).stream = "true" <=> request.stream
    /\ (FetchResolves(200) /\ request.stream) => pc' = "stream"

C33_StreamReadAsSse == [][C33_Step]_vars

\* ------------------------------------------------------------ editor claims
\* a submitPrompt call that streams is waiting for sendRequest
Streaming == {id \in PromptIds : prompt[id].pc = "sending" /\ prompt[id].stream}

\* C40: when a submitPrompt call made in streaming mode has finished, with a
\* response or with an error, the renderer holds no accumulator entry for
\* its request and, unless another streaming call is still in progress, the
\* style that hides the cursor has been removed; and while a streaming call
\* is in progress (the plugin not unloaded) the style is installed.
C40_EditorLifecycle ==
    /\ \A id \in PromptIds :
          (prompt[id].pc = "done" /\ prompt[id].stream)
            => /\ id \notin DOMAIN streamedContentMap
               /\ Streaming = {} => ~cursorHideStyleEl
    /\ (Streaming # {} /\ ~unloaded) => cursorHideStyleEl

====
